---- MODULE Spec2Model ----
(***************************************************************************)
(* Concurrency toolkit of daxiong0327/tool-kit: SafeExecutor (with its     *)
(* WaitGroup and GoWithInterval), Pool, CircuitBreaker, RateLimiter,       *)
(* Retry, BackoffStrategy, Batch and Monitor of package goroutine, and     *)
(* CachedGroup of package singleflight, as state machines.  Every          *)
(* goroutine is a process whose position is a "pc" field; a step is one    *)
(* critical section or one channel operation of the Go source.  Each       *)
(* component has its own specification (ExecSpec, PoolSpec, CBSpec, ...);  *)
(* the variables of the other components stay at their initial values.     *)
(***************************************************************************)
EXTENDS Integers, Sequences, FiniteSets, TLC

\* ------------------------------------------------------------------ bounds
\* Number of tasks handed to one SafeExecutor.
NumTasks == 2

Tasks == 1..NumTasks

VARIABLES
    \* SafeExecutor
    stats,            \* se.stats: the four counters of Stats
    recoverHandler,   \* se.recoverHandler
    task,             \* one record per spawned goroutine
    crashed,          \* TRUE once a panic has left a goroutine unrecovered
    \* Pool
    jobQueue,         \* p.jobQueue (buffered channel of jobs)
    jobQueueClosed,   \* close(p.jobQueue) has happened
    workerQueue,      \* p.workerQueue (buffered channel of worker intakes)
    quit,             \* close(p.quit) has happened
    dispatcher,       \* the dispatcher goroutine: position, job and intake held
    worker,           \* the worker goroutines
    job,              \* every job: where it is and what became of it
    poolStats,        \* p.stats counters and p.workerCount
    stopper,          \* the callers of Stop / StopGracefully
    \* CircuitBreaker
    cb,               \* the fields of CircuitBreaker
    call,             \* the concurrent callers of Execute
    now,              \* the clock read by time.Now / time.Since
    cbLog,            \* observations of the last transition (history)
    \* RateLimiter
    tokens,           \* len(rl.tokens)
    refiller,         \* the refill goroutine and the ticker
    allowLog,         \* results of the Allow calls so far and the tick count
                      \* at each of them (history)
    \* Retry
    retry,            \* one call of Retry.Execute: its locals and its result
    async,            \* one call of Retry.ExecuteAsync: its goroutine, the
                      \* result channel and what its receiver has got
    \* BackoffStrategy
    backoff,          \* an ExponentialBackoff and its last GetDelay call
    \* Batch
    batch,            \* b.results, b.errors and the WaitGroup of a Batch
    batchTask,        \* the tasks given to Batch.Add
    batchWaiter,      \* the caller of Batch.Wait and what it was returned
    \* Monitor
    monStats,         \* the MonitorStats object m.stats points to
    monConfig,        \* the AlertConfig m.alertConfig points to
    monHandlers,      \* len(m.handlers); handlers are numbered as registered
    monitor,          \* the monitoring goroutine, its ticker and m.stopChan
    monLog,           \* the tick being processed: alerts raised and handlers
                      \* notified (history)
    monHanded,        \* the snapshots handed to a caller of GetStats and to a
                      \* handler, as they were when handed over (history)
    \* SafeExecutor.GoWithInterval
    interval,         \* the supervising goroutine, its ticker and the stop channel
    \* Pool: the statistics block of executeJob
    avgJob,           \* AverageJobTime, the two counters it is computed from
                      \* and the durations of the jobs finished (history)
    \* CachedGroup
    cgroup,           \* the cache entry of one key, the call in flight for it
                      \* in g.sf and the concurrent callers of Do
    \* WaitGroup
    waitGroup         \* wg.wg's counter, wg.done and the callers of Go and Wait

execVars == <<stats, recoverHandler, task, crashed>>
poolVars == <<jobQueue, jobQueueClosed, workerQueue, quit, dispatcher, worker,
              job, poolStats, stopper>>
cbVars == <<cb, call, now, cbLog>>
rlVars == <<tokens, refiller, allowLog>>
retryVars == <<retry, async>>
backoffVars == <<backoff>>
batchVars == <<batch, batchTask, batchWaiter>>
monVars == <<monStats, monConfig, monHandlers, monitor, monLog, monHanded>>
intervalVars == <<interval>>
avgVars == <<avgJob>>
cgVars == <<cgroup>>
wgVars == <<waitGroup>>
vars == <<execVars, poolVars, cbVars, rlVars, retryVars, backoffVars, batchVars,
          monVars, intervalVars, avgVars, cgVars, wgVars>>

\* What the steps of one component leave alone.
otherThanExec ==
    <<poolVars, cbVars, rlVars, retryVars, backoffVars, batchVars, monVars,
      intervalVars, avgVars, cgVars, wgVars>>
otherThanExecInterval ==
    <<poolVars, cbVars, rlVars, retryVars, backoffVars, batchVars, monVars,
      avgVars, cgVars, wgVars>>
otherThanPool ==
    <<execVars, cbVars, rlVars, retryVars, backoffVars, batchVars, monVars,
      intervalVars, avgVars, cgVars, wgVars>>
otherThanCB ==
    <<execVars, poolVars, rlVars, retryVars, backoffVars, batchVars, monVars,
      intervalVars, avgVars, cgVars, wgVars>>
otherThanRL ==
    <<execVars, poolVars, cbVars, retryVars, backoffVars, batchVars, monVars,
      intervalVars, avgVars, cgVars, wgVars>>
otherThanRetry ==
    <<execVars, poolVars, cbVars, rlVars, backoffVars, batchVars, monVars,
      intervalVars, avgVars, cgVars, wgVars>>
otherThanBackoff ==
    <<execVars, poolVars, cbVars, rlVars, retryVars, batchVars, monVars,
      intervalVars, avgVars, cgVars, wgVars>>
otherThanBatch ==
    <<execVars, poolVars, cbVars, rlVars, retryVars, backoffVars, monVars,
      intervalVars, avgVars, cgVars, wgVars>>
otherThanMonitor ==
    <<execVars, poolVars, cbVars, rlVars, retryVars, backoffVars, batchVars,
      intervalVars, avgVars, cgVars, wgVars>>

otherThanMonitorExec ==
    <<poolVars, cbVars, rlVars, retryVars, backoffVars, batchVars,
      intervalVars, avgVars, cgVars, wgVars>>
otherThanExecWG ==
    <<poolVars, cbVars, rlVars, retryVars, backoffVars, batchVars, monVars,
      intervalVars, avgVars, cgVars>>
otherThanAvg ==
    <<execVars, poolVars, cbVars, rlVars, retryVars, backoffVars, batchVars,
      monVars, intervalVars, cgVars, wgVars>>
otherThanCG ==
    <<execVars, poolVars, cbVars, rlVars, retryVars, backoffVars, batchVars,
      monVars, intervalVars, avgVars, wgVars>>

\* ================================================================ SafeExecutor

\* A nil RecoverHandler.
NoHandler == "nil"
\* defaultRecoverHandler and one handler installed by the application.
Handlers == {"default", "custom"}

ZeroStats ==
    [TotalGoroutines |-> 0, ActiveGoroutines |-> 0,
     PanicCount |-> 0, CompletedCount |-> 0]

NewTask ==
    [pc |-> "unspawned", handler |-> NoHandler, ctxDone |-> FALSE,
     ranFn |-> FALSE, panicked |-> FALSE, handled |-> 0,
     origin |-> "none", expired |-> FALSE]

ExecInitVars ==
    /\ stats = ZeroStats
    /\ recoverHandler = "default"
    /\ task = [t \in Tasks |-> NewTask]
    /\ crashed = FALSE

\* GetStats: a copy of the counters.
GetStats == stats

\* SetRecoverHandler(h); h may be nil.
SetRecoverHandler(h) ==
    /\ ~crashed
    /\ recoverHandler # h
    /\ recoverHandler' = h
    /\ UNCHANGED <<stats, task, crashed>>
    /\ UNCHANGED otherThanExec

\* ResetStats: se.stats = &Stats{}.  The goroutines of the tasks read
\* se.stats anew at each of their critical sections, so after the call they
\* count on the new object.
ResetStats ==
    /\ ~crashed
    /\ stats # ZeroStats
    /\ stats' = ZeroStats
    /\ UNCHANGED <<recoverHandler, task, crashed>>
    /\ UNCHANGED otherThanExec

\* The counters after the prologue of GoWithContext.
SpawnStatsActiveOnly(s) ==
    [s EXCEPT !.ActiveGoroutines = @ + 1]

SpawnStats(s) ==
    [s EXCEPT !.TotalGoroutines = @ + 1, !.ActiveGoroutines = @ + 1]

\* GoWithContext(ctx, fn) up to the go statement; Go(fn) is the case of a
\* context that is never cancelled.  cancelled: ctx is already done.  Tasks
\* are numbered in the order of the calls.
GoWithContext(t, cancelled) ==
    /\ ~crashed
    /\ task[t].pc = "unspawned"
    /\ \A i \in Tasks : i < t => task[i].pc # "unspawned"
    /\ task' = [task EXCEPT ![t] = [@ EXCEPT !.pc = "spawned",
                                             !.handler = recoverHandler,
                                             !.ctxDone = cancelled,
                                             !.origin = IF cancelled
                                                        THEN "cancelledCtx"
                                                        ELSE "ctx"]]
    /\ stats' = SpawnStats(stats)
    /\ UNCHANGED <<recoverHandler, crashed>>
    /\ UNCHANGED otherThanExec

\* GoWithTimeout(fn, d) up to the return of its call of GoWithContext: the
\* context of context.WithTimeout is live and its timer is armed.
GoWithTimeout(t) ==
    /\ ~crashed
    /\ task[t].pc = "unspawned"
    /\ \A i \in Tasks : i < t => task[i].pc # "unspawned"
    /\ task' = [task EXCEPT ![t] = [@ EXCEPT !.pc = "spawned",
                                             !.handler = recoverHandler,
                                             !.origin = "timeout"]]
    /\ stats' = SpawnStats(stats)
    /\ UNCHANGED <<recoverHandler, crashed>>
    /\ UNCHANGED otherThanExec

\* GoWithTimeout returns: its "defer cancel()" runs and cancels the context,
\* wherever the goroutine is.
GoWithTimeoutReturn(t) ==
    /\ ~crashed
    /\ task[t].origin = "timeout"
    /\ task' = [task EXCEPT ![t] = [@ EXCEPT !.origin = "timeoutReturned",
                                             !.ctxDone = TRUE]]
    /\ UNCHANGED <<stats, recoverHandler, crashed>>
    /\ UNCHANGED otherThanExec

\* The duration d of GoWithTimeout elapses before cancel() has stopped the timer.
TimeoutElapses(t) ==
    /\ ~crashed
    /\ task[t].origin = "timeout"
    /\ task[t].pc \in {"spawned", "running"}
    /\ ~task[t].ctxDone
    /\ task' = [task EXCEPT ![t] = [@ EXCEPT !.ctxDone = TRUE, !.expired = TRUE]]
    /\ UNCHANGED <<stats, recoverHandler, crashed>>
    /\ UNCHANGED otherThanExec

\* The owner of ctx cancels it (or its deadline passes) while the task lives.
CtxCancel(t) ==
    /\ ~crashed
    /\ task[t].origin = "ctx"
    /\ task[t].pc \in {"spawned", "running"}
    /\ ~task[t].ctxDone
    /\ task' = [task EXCEPT ![t].ctxDone = TRUE]
    /\ UNCHANGED <<stats, recoverHandler, crashed>>
    /\ UNCHANGED otherThanExec

\* The select on ctx.Done() at the top of the goroutine.
StartsFnAlways(ctxDone) == TRUE

StartsFn(ctxDone) == ~ctxDone

\* The goroutine runs its start check: it skips fn or enters it.
TaskStart(t) ==
    /\ ~crashed
    /\ task[t].pc = "spawned"
    /\ task' = [task EXCEPT ![t] =
                  IF StartsFn(task[t].ctxDone)
                  THEN [@ EXCEPT !.pc = "running", !.ranFn = TRUE]
                  ELSE [@ EXCEPT !.pc = "exiting"]]
    /\ UNCHANGED <<stats, recoverHandler, crashed>>
    /\ UNCHANGED otherThanExec

\* fn ends: it returns, or it panics.
TaskFnEnd(t, panics) ==
    /\ ~crashed
    /\ task[t].pc = "running"
    /\ task' = [task EXCEPT ![t] = [@ EXCEPT !.pc = "exiting", !.panicked = panics]]
    /\ UNCHANGED <<stats, recoverHandler, crashed>>
    /\ UNCHANGED otherThanExec

\* First critical section of the deferred function.
TaskDeferActive(t) ==
    /\ ~crashed
    /\ task[t].pc = "exiting"
    /\ stats' = [stats EXCEPT !.ActiveGoroutines = @ - 1]
    /\ task' = [task EXCEPT ![t].pc = "recovering"]
    /\ UNCHANGED <<recoverHandler, crashed>>
    /\ UNCHANGED otherThanExec

\* recover() is called directly by the deferred function, so it stops the panic.
RecoversNothing(panicked) == FALSE

Recovers(panicked) == TRUE

\* The counters after "if r := recover(); r != nil { handlePanic } else { Completed++ }".
SettleStatsBoth(s, panicked) ==
    IF panicked
    THEN [s EXCEPT !.PanicCount = @ + 1, !.CompletedCount = @ + 1]
    ELSE [s EXCEPT !.CompletedCount = @ + 1]

SettleStats(s, panicked) ==
    IF panicked
    THEN [s EXCEPT !.PanicCount = @ + 1]
    ELSE [s EXCEPT !.CompletedCount = @ + 1]

\* handlePanic calls the handler captured at spawn time when it is not nil.
InvokesHandlerAlways(panicked, h) == h # NoHandler

InvokesHandler(panicked, h) == panicked /\ h # NoHandler

\* Rest of the deferred function: recover, then handlePanic or CompletedCount++.
\* The handler is taken to return normally.
TaskDeferSettle(t) ==
    /\ ~crashed
    /\ task[t].pc = "recovering"
    /\ stats' = SettleStats(stats, task[t].panicked)
    /\ task' = [task EXCEPT ![t] =
                  [@ EXCEPT !.pc = "done",
                            !.handled = IF InvokesHandler(task[t].panicked, task[t].handler)
                                        THEN @ + 1 ELSE @]]
    /\ crashed' = (task[t].panicked /\ ~Recovers(task[t].panicked))
    /\ UNCHANGED recoverHandler
    /\ UNCHANGED otherThanExec

ExecNext ==
    \/ \E t \in Tasks, cancelled \in BOOLEAN : GoWithContext(t, cancelled)
    \/ \E t \in Tasks : CtxCancel(t)
    \/ \E t \in Tasks : TaskStart(t)
    \/ \E t \in Tasks, panics \in BOOLEAN : TaskFnEnd(t, panics)
    \/ \E t \in Tasks : TaskDeferActive(t)
    \/ \E t \in Tasks : TaskDeferSettle(t)
    \/ \E h \in Handlers \cup {NoHandler} : SetRecoverHandler(h)

\* The executor with ResetStats called at any moment.
ExecResetNext ==
    \/ ExecNext
    \/ ResetStats

\* The executor used through GoWithTimeout.
ExecTimeoutNext ==
    \/ \E t \in Tasks : GoWithTimeout(t)
    \/ \E t \in Tasks : GoWithTimeoutReturn(t)
    \/ \E t \in Tasks : TimeoutElapses(t)
    \/ \E t \in Tasks : TaskStart(t)
    \/ \E t \in Tasks, panics \in BOOLEAN : TaskFnEnd(t, panics)
    \/ \E t \in Tasks : TaskDeferActive(t)
    \/ \E t \in Tasks : TaskDeferSettle(t)

\* The executor used through GoWithInterval: the supervising goroutine and
\* the instances of fn it spawns (the tasks of the executor).
IntervalInitVars ==
    interval = [pc |-> "unstarted", tickPending |-> FALSE, stopClosed |-> FALSE]

\* GoWithInterval(fn, d): stop := make(chan struct{}), the supervising
\* goroutine is spawned by se.Go and creates its ticker, stop is returned.
GoWithInterval ==
    /\ ~crashed
    /\ interval.pc = "unstarted"
    /\ interval' = [interval EXCEPT !.pc = "select"]
    /\ stats' = SpawnStats(stats)
    /\ UNCHANGED <<recoverHandler, task, crashed>>
    /\ UNCHANGED otherThanExecInterval

\* The ticker sends a tick on ticker.C unless one is waiting there.  Ticks
\* are followed as long as a task is left to spawn.
IntervalTickFire ==
    /\ ~crashed
    /\ interval.pc = "select"
    /\ ~interval.tickPending
    /\ \E t \in Tasks : task[t].pc = "unspawned"
    /\ interval' = [interval EXCEPT !.tickPending = TRUE]
    /\ UNCHANGED execVars
    /\ UNCHANGED otherThanExecInterval

\* The select takes case <-ticker.C: se.Go(fn) spawns an instance of fn as a
\* task of its own.
IntervalSpawn(t) ==
    /\ ~crashed
    /\ interval.pc = "select"
    /\ interval.tickPending
    /\ task[t].pc = "unspawned"
    /\ \A i \in Tasks : i < t => task[i].pc # "unspawned"
    /\ interval' = [interval EXCEPT !.tickPending = FALSE]
    /\ task' = [task EXCEPT ![t] = [@ EXCEPT !.pc = "spawned",
                                             !.handler = recoverHandler,
                                             !.origin = "ctx"]]
    /\ stats' = SpawnStats(stats)
    /\ UNCHANGED <<recoverHandler, crashed>>
    /\ UNCHANGED otherThanExecInterval

\* The holder of the returned channel closes it.
IntervalStop ==
    /\ ~crashed
    /\ interval.pc # "unstarted"
    /\ ~interval.stopClosed
    /\ interval' = [interval EXCEPT !.stopClosed = TRUE]
    /\ UNCHANGED execVars
    /\ UNCHANGED otherThanExecInterval

\* The select takes case <-stop: the supervising goroutine returns, its
\* ticker is stopped and its deferred function settles the counters.
IntervalExit ==
    /\ ~crashed
    /\ interval.pc = "select"
    /\ interval.stopClosed
    /\ interval' = [interval EXCEPT !.pc = "exited"]
    /\ stats' = SettleStats([stats EXCEPT !.ActiveGoroutines = @ - 1], FALSE)
    /\ UNCHANGED <<recoverHandler, task, crashed>>
    /\ UNCHANGED otherThanExecInterval

ExecIntervalNext ==
    \/ GoWithInterval
    \/ IntervalTickFire
    \/ \E t \in Tasks : IntervalSpawn(t)
    \/ IntervalStop
    \/ IntervalExit
    \/ \E t \in Tasks : TaskStart(t)
    \/ \E t \in Tasks, panics \in BOOLEAN : TaskFnEnd(t, panics)
    \/ \E t \in Tasks : TaskDeferActive(t)
    \/ \E t \in Tasks : TaskDeferSettle(t)

\* ======================================================================== Pool

\* PoolConfig.MaxWorkers, PoolConfig.QueueSize and the number of jobs offered.
MaxWorkers == 2
QueueSize == 2
NumJobs == 3

Workers == 1..MaxWorkers
Jobs == 1..NumJobs
\* The zero Job received from a closed p.jobQueue.
NilJob == 0
\* No intake held.
NoWorker == 0

NewJob ==
    [pc |-> "new", timeout |-> FALSE, ctxDone |-> FALSE, handled |-> 0]

\* NewPool: the dispatcher is spawned and every worker has put its intake on
\* p.workerQueue and has been spawned; no goroutine has run yet.
PoolInitVars ==
    /\ jobQueue = <<>>
    /\ jobQueueClosed = FALSE
    /\ workerQueue = [i \in 1..MaxWorkers |-> i]
    /\ quit = FALSE
    /\ dispatcher = [pc |-> "select", job |-> NilJob, intake |-> NoWorker]
    /\ worker = [w \in Workers |-> [pc |-> "new", chanClosed |-> FALSE, job |-> NilJob]]
    /\ job = [j \in Jobs |-> NewJob]
    /\ poolStats = [TotalJobs |-> 0, CompletedJobs |-> 0, FailedJobs |-> 0,
                    workerCount |-> 0]
    /\ stopper = [pc |-> "idle"]

\* Pool.GetStats: the counters, with the queue length and p.workerCount read
\* at the moment of the call.
PoolGetStats ==
    [TotalJobs |-> poolStats.TotalJobs,
     CompletedJobs |-> poolStats.CompletedJobs,
     FailedJobs |-> poolStats.FailedJobs,
     ActiveWorkers |-> poolStats.workerCount,
     QueuedJobs |-> Len(jobQueue)]

\* Jobs whose Execute is running.
RunningJobs == {j \in Jobs : job[j].pc = "running"}

\* p.jobQueue <- job on a buffered channel: the job joins the back of the
\* buffer, from whose front the dispatcher receives.
JobQueueSendFront(q, j) == <<j>> \o q

JobQueueSend(q, j) == Append(q, j)

\* Submit(job): a non-blocking send on p.jobQueue.  A send on the channel
\* closed by StopGracefully panics in the caller.  Jobs are numbered in the
\* order of the Submit calls.
Submit(j) ==
    /\ ~crashed
    /\ job[j].pc = "new"
    /\ \A i \in Jobs : i < j => job[i].pc # "new"
    /\ IF jobQueueClosed
       THEN /\ job' = [job EXCEPT ![j].pc = "submitPanic"]
            /\ UNCHANGED jobQueue
       ELSE IF Len(jobQueue) < QueueSize
       THEN /\ job' = [job EXCEPT ![j].pc = "accepted"]
            /\ jobQueue' = JobQueueSend(jobQueue, j)
       ELSE /\ job' = [job EXCEPT ![j].pc = "rejected"]
            /\ UNCHANGED jobQueue
    /\ UNCHANGED <<jobQueueClosed, workerQueue, quit, dispatcher, worker,
                   poolStats, stopper>>
    /\ UNCHANGED otherThanPool

\* Dispatcher, case job := <-p.jobQueue: it counts the job.  A closed and
\* empty queue delivers the zero Job.
DispatcherTakeJob ==
    /\ ~crashed
    /\ dispatcher.pc = "select"
    /\ \/ /\ jobQueue # <<>>
          /\ dispatcher' = [dispatcher EXCEPT !.pc = "getWorker", !.job = Head(jobQueue)]
          /\ jobQueue' = Tail(jobQueue)
       \/ /\ jobQueue = <<>>
          /\ jobQueueClosed
          /\ dispatcher' = [dispatcher EXCEPT !.pc = "getWorker", !.job = NilJob]
          /\ UNCHANGED jobQueue
    /\ poolStats' = [poolStats EXCEPT !.TotalJobs = @ + 1]
    /\ UNCHANGED <<jobQueueClosed, workerQueue, quit, worker, job, stopper>>
    /\ UNCHANGED otherThanPool

\* Dispatcher, case <-p.quit.
DispatcherQuit ==
    /\ ~crashed
    /\ dispatcher.pc = "select"
    /\ quit
    /\ dispatcher' = [dispatcher EXCEPT !.pc = "exited"]
    /\ UNCHANGED <<jobQueue, jobQueueClosed, workerQueue, quit, worker, job,
                   poolStats, stopper>>
    /\ UNCHANGED otherThanPool

\* Dispatcher, workerJobQueue := <-p.workerQueue (blocks while it is empty).
DispatcherGetWorker ==
    /\ ~crashed
    /\ dispatcher.pc = "getWorker"
    /\ workerQueue # <<>>
    /\ dispatcher' = [dispatcher EXCEPT !.pc = "handoff", !.intake = Head(workerQueue)]
    /\ workerQueue' = Tail(workerQueue)
    /\ UNCHANGED <<jobQueue, jobQueueClosed, quit, worker, job, poolStats, stopper>>
    /\ UNCHANGED otherThanPool

\* Dispatcher, workerJobQueue <- job on an intake its worker has closed: the
\* send panics and the executor's deferred function ends the dispatcher.
DispatcherSendClosed ==
    /\ ~crashed
    /\ dispatcher.pc = "handoff"
    /\ worker[dispatcher.intake].chanClosed
    /\ dispatcher' = [dispatcher EXCEPT !.pc = "panicked"]
    /\ UNCHANGED <<jobQueue, jobQueueClosed, workerQueue, quit, worker, job,
                   poolStats, stopper>>
    /\ UNCHANGED otherThanPool

\* Worker goroutine begins: workerCount and ActiveWorkers are incremented.
WorkerStart(w) ==
    /\ ~crashed
    /\ worker[w].pc = "new"
    /\ worker' = [worker EXCEPT ![w].pc = "idle"]
    /\ poolStats' = [poolStats EXCEPT !.workerCount = @ + 1]
    /\ UNCHANGED <<jobQueue, jobQueueClosed, workerQueue, quit, dispatcher, job, stopper>>
    /\ UNCHANGED otherThanPool

\* The rendezvous workerJobQueue <- job / job := <-workerJobQueue, and
\* executeJob up to the go statement of GoWithContext.  executeJob of the
\* zero Job panics in job.GetTimeout(): the worker goroutine ends (its
\* deferred function decrements the counters).  hasTimeout: what
\* job.GetTimeout() > 0 yields for this job (SubmitWithTimeout), first read here.
WorkerReceive(w, hasTimeout) ==
    /\ ~crashed
    /\ dispatcher.pc = "handoff"
    /\ dispatcher.intake = w
    /\ worker[w].pc = "idle"
    /\ dispatcher' = [pc |-> "select", job |-> NilJob, intake |-> NoWorker]
    /\ IF dispatcher.job = NilJob
       THEN /\ worker' = [worker EXCEPT ![w].pc = "exited"]
            /\ poolStats' = [poolStats EXCEPT !.workerCount = @ - 1]
            /\ UNCHANGED job
       ELSE /\ worker' = [worker EXCEPT ![w] = [@ EXCEPT !.pc = "executing",
                                                         !.job = dispatcher.job]]
            /\ job' = [job EXCEPT ![dispatcher.job] =
                          [@ EXCEPT !.pc = "spawned", !.timeout = hasTimeout]]
            /\ UNCHANGED poolStats
    /\ UNCHANGED <<jobQueue, jobQueueClosed, workerQueue, quit, stopper>>
    /\ UNCHANGED otherThanPool

\* The worker loop after executeJob: the intake is not put back on
\* p.workerQueue.
WorkerQueueRequeue(wq, w) == Append(wq, w)

WorkerQueueAfterJob(wq, w) == wq

\* executeJob returns (the deferred cancel() ends the context of a job with
\* a timeout) and the worker is back in its select.  Nothing reads the
\* context after the start check of the job's goroutine, so its state is
\* followed up to that check only.
WorkerExecuteReturn(w) ==
    /\ ~crashed
    /\ worker[w].pc = "executing"
    /\ worker' = [worker EXCEPT ![w] = [@ EXCEPT !.pc = "idle", !.job = NilJob]]
    /\ job' = [job EXCEPT ![worker[w].job].ctxDone =
                              IF job[worker[w].job].pc = "spawned"
                              THEN job[worker[w].job].timeout ELSE @]
    /\ workerQueue' = WorkerQueueAfterJob(workerQueue, w)
    /\ UNCHANGED <<jobQueue, jobQueueClosed, quit, dispatcher, poolStats, stopper>>
    /\ UNCHANGED otherThanPool

\* Worker, case <-p.quit: it closes its intake and ends.
WorkerQuit(w) ==
    /\ ~crashed
    /\ worker[w].pc = "idle"
    /\ quit
    /\ worker' = [worker EXCEPT ![w] = [@ EXCEPT !.pc = "exited", !.chanClosed = TRUE]]
    /\ poolStats' = [poolStats EXCEPT !.workerCount = @ - 1]
    /\ UNCHANGED <<jobQueue, jobQueueClosed, workerQueue, quit, dispatcher, job, stopper>>
    /\ UNCHANGED otherThanPool

\* The job's goroutine runs the start check of GoWithContext.
JobStart(j) ==
    /\ ~crashed
    /\ job[j].pc = "spawned"
    /\ job' = [job EXCEPT ![j].pc = IF StartsFn(job[j].ctxDone) THEN "running" ELSE "skipped"]
    /\ UNCHANGED <<jobQueue, jobQueueClosed, workerQueue, quit, dispatcher, worker,
                   poolStats, stopper>>
    /\ UNCHANGED otherThanPool

\* The timeout of a job's context elapses before the start check and before
\* cancel() has stopped its timer.
JobTimeoutElapses(j) ==
    /\ ~crashed
    /\ job[j].pc = "spawned"
    /\ job[j].timeout
    /\ ~job[j].ctxDone
    /\ job' = [job EXCEPT ![j].ctxDone = TRUE]
    /\ UNCHANGED <<jobQueue, jobQueueClosed, workerQueue, quit, dispatcher, worker,
                   poolStats, stopper>>
    /\ UNCHANGED otherThanPool

\* job.Execute() ends: nil, an error, or a panic (no counter is reached), and
\* the deferred function of the job's goroutine recovers the panic and calls
\* the executor's handler.
JobFnEnd(j, outcome) ==
    /\ ~crashed
    /\ job[j].pc = "running"
    /\ job' = [job EXCEPT ![j] =
                 [@ EXCEPT !.pc = "done",
                           !.handled = IF InvokesHandler(outcome = "panic", recoverHandler)
                                       THEN @ + 1 ELSE @]]
    /\ poolStats' = [poolStats EXCEPT
                       !.CompletedJobs = IF outcome = "ok" THEN @ + 1 ELSE @,
                       !.FailedJobs = IF outcome = "err" THEN @ + 1 ELSE @]
    /\ crashed' = (outcome = "panic" /\ ~Recovers(outcome = "panic"))
    /\ UNCHANGED <<jobQueue, jobQueueClosed, workerQueue, quit, dispatcher, worker, stopper>>
    /\ UNCHANGED <<stats, recoverHandler, task>>
    /\ UNCHANGED <<cbVars, rlVars, retryVars, backoffVars, batchVars, monVars,
                   intervalVars, avgVars, cgVars, wgVars>>

\* Stop: close(p.quit).  Closing a closed channel panics in the caller, whose
\* further calls are not followed.
Stop ==
    /\ ~crashed
    /\ stopper.pc = "idle"
    /\ stopper' = [stopper EXCEPT !.pc = IF quit THEN "panicked" ELSE "idle"]
    /\ quit' = TRUE
    /\ UNCHANGED <<jobQueue, jobQueueClosed, workerQueue, dispatcher, worker, job, poolStats>>
    /\ UNCHANGED otherThanPool

\* StopGracefully, first statement: close(p.jobQueue).
StopGracefullyClose ==
    /\ ~crashed
    /\ stopper.pc = "idle"
    /\ stopper' = [stopper EXCEPT !.pc = IF jobQueueClosed THEN "panicked" ELSE "draining"]
    /\ jobQueueClosed' = TRUE
    /\ UNCHANGED <<jobQueue, workerQueue, quit, dispatcher, worker, job, poolStats>>
    /\ UNCHANGED otherThanPool

\* StopGracefully after the wait (queue drained, or the timeout): close(p.quit).
StopGracefullyQuit ==
    /\ ~crashed
    /\ stopper.pc = "draining"
    /\ stopper' = [stopper EXCEPT !.pc = IF quit THEN "panicked" ELSE "idle"]
    /\ quit' = TRUE
    /\ UNCHANGED <<jobQueue, jobQueueClosed, workerQueue, dispatcher, worker, job, poolStats>>
    /\ UNCHANGED otherThanPool

\* The steps of the pool's own goroutines.
PoolInternalNext ==
    \/ DispatcherTakeJob
    \/ DispatcherQuit
    \/ DispatcherGetWorker
    \/ DispatcherSendClosed
    \/ \E w \in Workers : WorkerStart(w)
    \/ \E w \in Workers, hasTimeout \in BOOLEAN : WorkerReceive(w, hasTimeout)
    \/ \E w \in Workers : WorkerExecuteReturn(w)
    \/ \E w \in Workers : WorkerQuit(w)
    \/ \E j \in Jobs : JobStart(j)
    \/ \E j \in Jobs : JobTimeoutElapses(j)
    \/ \E j \in Jobs, outcome \in {"ok", "err", "panic"} : JobFnEnd(j, outcome)

PoolNext ==
    \/ \E j \in Jobs : Submit(j)
    \/ PoolInternalNext
    \/ Stop
    \/ StopGracefullyClose
    \/ StopGracefullyQuit

\* ============================================================== CircuitBreaker

\* maxFailures and resetTimeout (in clock ticks) given to NewCircuitBreaker.
MaxFailures == 2
ResetTimeout == 1
\* Goroutines calling Execute, calls of Execute in all, and the last clock value.
NumCallers == 2
MaxCalls == 4
MaxTime == 3

Callers == 1..NumCallers

\* The zero time.Time of a breaker that has recorded no failure: further in
\* the past than any timeout.
ZeroTime == 0 - (ResetTimeout + 1)

CBInitVars ==
    /\ cb = [state |-> "Closed", failureCount |-> 0, successCount |-> 0,
             lastFailureTime |-> ZeroTime]
    /\ call = [c \in Callers |-> [pc |-> "idle", state |-> "Closed", err |-> FALSE,
                                  result |-> "none"]]
    /\ now = 0
    /\ cbLog = [started |-> 0, fnCalls |-> 0, consec |-> 0, overlap |-> FALSE,
                reset |-> FALSE]

\* GetState and GetStats.
CBGetState == cb.state
CBGetStats == <<cb.failureCount, cb.successCount>>

\* Execute, first critical section: state := cb.state under the read lock.
CBExecuteRead(c) ==
    /\ call[c].pc = "idle"
    /\ cbLog.started < MaxCalls
    /\ call' = [call EXCEPT ![c] = [pc |-> "switch", state |-> cb.state,
                                    err |-> FALSE, result |-> "none"]]
    /\ cbLog' = [cbLog EXCEPT !.started = @ + 1,
                              !.overlap = @ \/ (\E d \in Callers \ {c} : call[d].pc # "idle")]
    /\ UNCHANGED <<cb, now>>
    /\ UNCHANGED otherThanCB

\* time.Since(cb.lastFailureTime) > cb.resetTimeout.  The read of
\* lastFailureTime takes no lock; it yields the value before or after a
\* concurrent write, which the interleaving of steps covers.
TimedOutInclusive(t, last) == t - last >= ResetTimeout

TimedOut(t, last) == t - last > ResetTimeout

\* Execute, the switch on the state read: an Open state is rejected unless
\* the timeout has passed.
CBExecuteSwitch(c) ==
    /\ call[c].pc = "switch"
    /\ IF call[c].state = "Open"
       THEN IF TimedOut(now, cb.lastFailureTime)
            THEN call' = [call EXCEPT ![c].pc = "toHalfOpen"]
            ELSE call' = [call EXCEPT ![c] = [@ EXCEPT !.pc = "idle", !.result = "open"]]
       ELSE call' = [call EXCEPT ![c].pc = "fn"]
    /\ UNCHANGED <<cb, now, cbLog>>
    /\ UNCHANGED otherThanCB

\* Execute, cb.state = StateHalfOpen under the write lock.
CBExecuteHalfOpen(c) ==
    /\ call[c].pc = "toHalfOpen"
    /\ cb' = [cb EXCEPT !.state = "HalfOpen"]
    /\ call' = [call EXCEPT ![c].pc = "fn"]
    /\ UNCHANGED <<now, cbLog>>
    /\ UNCHANGED otherThanCB

\* Execute, err := fn(): the wrapped function runs and fails or succeeds.
CBExecuteFn(c, fails) ==
    /\ call[c].pc = "fn"
    /\ call' = [call EXCEPT ![c] = [@ EXCEPT !.pc = "record", !.err = fails]]
    /\ cbLog' = [cbLog EXCEPT !.fnCalls = @ + 1]
    /\ UNCHANGED <<cb, now>>
    /\ UNCHANGED otherThanCB

\* The breaker after the last critical section of Execute, entered at time t
\* with the result of fn.
RecordResultAboveThreshold(b, err, t) ==
    IF err
    THEN [b EXCEPT !.failureCount = @ + 1,
                   !.lastFailureTime = t,
                   !.state = IF b.failureCount + 1 > MaxFailures THEN "Open" ELSE @]
    ELSE IF b.state = "HalfOpen"
    THEN [b EXCEPT !.successCount = @ + 1, !.state = "Closed", !.failureCount = 0]
    ELSE [b EXCEPT !.successCount = @ + 1]

RecordResult(b, err, t) ==
    IF err
    THEN [b EXCEPT !.failureCount = @ + 1,
                   !.lastFailureTime = t,
                   !.state = IF b.failureCount + 1 >= MaxFailures THEN "Open" ELSE @]
    ELSE IF b.state = "HalfOpen"
    THEN [b EXCEPT !.successCount = @ + 1, !.state = "Closed", !.failureCount = 0]
    ELSE [b EXCEPT !.successCount = @ + 1]

\* Execute, the last critical section, and the return of err.
CBExecuteRecord(c) ==
    /\ call[c].pc = "record"
    /\ cb' = RecordResult(cb, call[c].err, now)
    /\ call' = [call EXCEPT ![c] = [@ EXCEPT !.pc = "idle",
                                             !.result = IF call[c].err THEN "err" ELSE "ok"]]
    /\ cbLog' = [cbLog EXCEPT !.consec = IF call[c].err THEN @ + 1 ELSE 0]
    /\ UNCHANGED now
    /\ UNCHANGED otherThanCB

\* The breaker after Reset: the state is StateClosed and both counters are 0.
ResetBreakerStateOnly(b) == [b EXCEPT !.state = "Closed"]

ResetBreaker(b) ==
    [b EXCEPT !.failureCount = 0, !.successCount = 0, !.state = "Closed"]

\* Reset.
CBReset ==
    /\ cb' = ResetBreaker(cb)
    /\ cbLog' = [cbLog EXCEPT !.consec = 0, !.reset = TRUE]
    /\ UNCHANGED <<call, now>>
    /\ UNCHANGED otherThanCB

\* Time passes.
CBTick ==
    /\ now < MaxTime
    /\ now' = now + 1
    /\ UNCHANGED <<cb, call, cbLog>>
    /\ UNCHANGED otherThanCB

CBNext ==
    \/ \E c \in Callers : CBExecuteRead(c)
    \/ \E c \in Callers : CBExecuteSwitch(c)
    \/ \E c \in Callers : CBExecuteHalfOpen(c)
    \/ \E c \in Callers, fails \in BOOLEAN : CBExecuteFn(c, fails)
    \/ \E c \in Callers : CBExecuteRecord(c)
    \/ CBReset
    \/ CBTick

\* ================================================================= RateLimiter

\* limit given to NewRateLimiter, and the number of Allow calls observed.
Limit == 3
MaxAllowCalls == 5
\* Ticks of the refill ticker (one every interval / limit) that are followed.
MaxTicks == 2

\* NewRateLimiter: the bucket is filled and the ticker and the refill
\* goroutine are started.
RLInitVars ==
    /\ tokens = Limit
    /\ refiller = [pc |-> "waiting", stopped |-> FALSE]
    /\ allowLog = [results |-> <<>>, times |-> <<>>, ticks |-> 0,
                   ticked |-> FALSE, waited |-> FALSE, grants |-> 0,
                   refilled |-> 0]

\* GetAvailableTokens.
GetAvailableTokens == tokens

\* The bucket after the select of Allow.
TokensAfterAllowKept(n) == n

TokensAfterAllow(n) == IF n > 0 THEN n - 1 ELSE n

\* Allow: a non-blocking receive from rl.tokens.
Allow ==
    /\ Len(allowLog.results) < MaxAllowCalls
    /\ tokens' = TokensAfterAllow(tokens)
    /\ allowLog' = [allowLog EXCEPT !.results = Append(@, tokens > 0),
                                    !.times = Append(@, allowLog.ticks),
                                    !.grants = IF tokens > 0 THEN @ + 1 ELSE @]
    /\ UNCHANGED refiller
    /\ UNCHANGED otherThanRL

\* Wait: a blocking receive from rl.tokens.
Wait ==
    /\ tokens > 0
    /\ tokens' = tokens - 1
    /\ allowLog' = [allowLog EXCEPT !.waited = TRUE, !.grants = @ + 1]
    /\ UNCHANGED refiller
    /\ UNCHANGED otherThanRL

\* The ticker delivers a tick to the refill goroutine.
RLTick ==
    /\ ~refiller.stopped
    /\ refiller.pc = "waiting"
    /\ allowLog.ticks < MaxTicks
    /\ refiller' = [refiller EXCEPT !.pc = "ticked"]
    /\ allowLog' = [allowLog EXCEPT !.ticked = TRUE, !.ticks = @ + 1]
    /\ UNCHANGED tokens
    /\ UNCHANGED otherThanRL

\* The bucket after the select of the refill goroutine: "case rl.tokens <-
\* struct{}{}" when the channel has room, "default" when it is full.
TokensAfterRefillUncapped(n) == n + 1

TokensAfterRefill(n) == IF n < Limit THEN n + 1 ELSE n

\* The refill goroutine's select: one token is added unless the bucket is full.
RLRefill ==
    /\ refiller.pc = "ticked"
    /\ tokens' = TokensAfterRefill(tokens)
    /\ refiller' = [refiller EXCEPT !.pc = "waiting"]
    /\ allowLog' = [allowLog EXCEPT !.refilled = IF tokens' # tokens THEN @ + 1 ELSE @]
    /\ UNCHANGED otherThanRL

\* Stop: rl.ticker.Stop().
RLStop ==
    /\ ~refiller.stopped
    /\ refiller' = [refiller EXCEPT !.stopped = TRUE]
    /\ UNCHANGED <<tokens, allowLog>>
    /\ UNCHANGED otherThanRL

RLNext ==
    \/ Allow
    \/ Wait
    \/ RLTick
    \/ RLRefill
    \/ RLStop

\* ======================================================================= Retry

\* Largest maxAttempts given to NewRetry.
MaxAttempts == 3

\* What an invocation of fn does.
FnOutcomes == {"ok", "err", "panic"}
\* fn's behaviour on its successive invocations.
FnPlans == [1..MaxAttempts -> FnOutcomes]
\* A nil error; the error returned by the i-th invocation of fn is i.
NilErr == 0

\* A Retry with maxAttempts n at the entry of Execute(fn).
RetryAtEntry(n, plan) ==
    [maxAttempts |-> n, plan |-> plan, pc |-> "loop", attempt |-> 0, calls |-> 0,
     lastErr |-> NilErr, result |-> "none", wrapped |-> NilErr]

\* The loop condition of Execute.
AttemptsRemainShort(attempt, n) == attempt < n - 1

AttemptsRemain(attempt, n) == attempt < n

\* Execute, one iteration up to the sleep: err := fn(), the return of nil,
\* lastErr = err.  A panic of fn leaves Execute.
RetryAttempt ==
    /\ retry.pc = "loop"
    /\ AttemptsRemain(retry.attempt, retry.maxAttempts)
    /\ LET outcome == retry.plan[retry.calls + 1] IN
       retry' =
         IF outcome = "ok"
         THEN [retry EXCEPT !.calls = @ + 1, !.pc = "returned", !.result = "nil"]
         ELSE IF outcome = "panic"
         THEN [retry EXCEPT !.calls = @ + 1, !.pc = "panicked"]
         ELSE IF retry.attempt < retry.maxAttempts - 1
         THEN [retry EXCEPT !.calls = @ + 1, !.lastErr = retry.calls + 1, !.pc = "sleep"]
         ELSE [retry EXCEPT !.calls = @ + 1, !.lastErr = retry.calls + 1,
                            !.attempt = @ + 1]
    /\ UNCHANGED async
    /\ UNCHANGED otherThanRetry

\* Execute, time.Sleep(r.backoff.GetDelay(attempt)) has passed; attempt++.
RetrySleep ==
    /\ retry.pc = "sleep"
    /\ retry' = [retry EXCEPT !.pc = "loop", !.attempt = @ + 1]
    /\ UNCHANGED async
    /\ UNCHANGED otherThanRetry

\* Execute, after the loop: the error wrapping lastErr is returned.
RetryExhausted ==
    /\ retry.pc = "loop"
    /\ ~AttemptsRemain(retry.attempt, retry.maxAttempts)
    /\ retry' = [retry EXCEPT !.pc = "returned", !.result = "error",
                              !.wrapped = retry.lastErr]
    /\ UNCHANGED async
    /\ UNCHANGED otherThanRetry

RetryNext ==
    \/ RetryAttempt
    \/ RetrySleep
    \/ RetryExhausted

\* No call of ExecuteAsync has been made.
AsyncIdle == [pc |-> "idle", chan |-> <<>>, received |-> <<>>]

\* What Execute has returned, as a value of the result channel.
ExecuteResult == [result |-> retry.result, wrapped |-> retry.wrapped]

\* ExecuteAsync(fn): result := make(chan error, 1), the goroutine is spawned
\* by r.executor.Go, and the channel is returned.
ExecuteAsync ==
    /\ async.pc = "idle"
    /\ async' = [async EXCEPT !.pc = "executing"]
    /\ UNCHANGED retry
    /\ UNCHANGED otherThanRetry

\* The goroutine of ExecuteAsync is inside r.Execute(fn).
AsyncRetryAttempt == async.pc = "executing" /\ RetryAttempt
AsyncRetrySleep == async.pc = "executing" /\ RetrySleep
AsyncRetryExhausted == async.pc = "executing" /\ RetryExhausted

\* Execute has returned: result <- its value (the buffer of one is free), and
\* the goroutine ends.
AsyncSend ==
    /\ async.pc = "executing"
    /\ retry.pc = "returned"
    /\ Len(async.chan) < 1
    /\ async' = [async EXCEPT !.pc = "ended", !.chan = Append(@, ExecuteResult)]
    /\ UNCHANGED retry
    /\ UNCHANGED otherThanRetry

\* fn has panicked inside Execute: the panic unwinds the closure before its
\* send and is recovered by the deferred function of the executor.
AsyncRecover ==
    /\ async.pc = "executing"
    /\ retry.pc = "panicked"
    /\ Recovers(TRUE)
    /\ async' = [async EXCEPT !.pc = "ended"]
    /\ UNCHANGED retry
    /\ UNCHANGED otherThanRetry

\* The caller of ExecuteAsync receives from the channel.
AsyncReceive ==
    /\ async.pc # "idle"
    /\ async.chan # <<>>
    /\ async' = [async EXCEPT !.chan = Tail(@), !.received = Append(@, Head(async.chan))]
    /\ UNCHANGED retry
    /\ UNCHANGED otherThanRetry

RetryAsyncNext ==
    \/ ExecuteAsync
    \/ AsyncRetryAttempt
    \/ AsyncRetrySleep
    \/ AsyncRetryExhausted
    \/ AsyncSend
    \/ AsyncRecover
    \/ AsyncReceive

\* ============================================================= BackoffStrategy

\* time.Duration is a signed integer of DurationBits bits (64 in the source).
DurationBits == 6
\* Largest attempt given to GetDelay.
MaxBackoffAttempt == 3

MaxDuration == 2^(DurationBits - 1) - 1
\* The non-negative durations.
Durations == 0..MaxDuration

\* Two's-complement wrap-around of the arithmetic on time.Duration.
WrapDuration(x) ==
    ((x + 2^(DurationBits - 1)) % 2^DurationBits) - 2^(DurationBits - 1)

\* The loop of ExponentialBackoff.GetDelay from iteration i on.
RECURSIVE DoubleAndCap(_, _, _, _)
DoubleAndCap(delay, i, attempt, maxDelay) ==
    IF i < attempt
    THEN LET doubled == WrapDuration(delay * 2) IN
         DoubleAndCap(IF doubled > maxDelay THEN maxDelay ELSE doubled,
                      i + 1, attempt, maxDelay)
    ELSE delay

\* ExponentialBackoff.GetDelay(attempt).
ExponentialGetDelay(b, attempt) == DoubleAndCap(b.BaseDelay, 0, attempt, b.MaxDelay)

\* An ExponentialBackoff on which GetDelay has not been called.
NewExponentialBackoff(base, maxDelay) ==
    [BaseDelay |-> base, MaxDelay |-> maxDelay, called |-> FALSE,
     attempt |-> 0, delay |-> 0]

\* A call of GetDelay(attempt).
BackoffGetDelay(attempt) ==
    /\ backoff' = [backoff EXCEPT !.called = TRUE, !.attempt = attempt,
                                  !.delay = ExponentialGetDelay(backoff, attempt)]
    /\ UNCHANGED otherThanBackoff

BackoffNext ==
    \E attempt \in 0..MaxBackoffAttempt : BackoffGetDelay(attempt)

\* ======================================================================= Batch

\* The number of tasks offered to Batch.Add.
NumBatchTasks == 3

BatchTasks == 1..NumBatchTasks

\* NewBatch: empty results and errors, a fresh WaitGroup, nothing added.
BatchInitVars ==
    /\ batch = [results |-> <<>>, errors |-> <<>>, counter |-> 0, done |-> FALSE]
    /\ batchTask = [i \in BatchTasks |-> [pc |-> "unadded", index |-> 0]]
    /\ batchWaiter = [pc |-> "idle", results |-> <<>>, errors |-> <<>>]

\* The index Add gives to the task it spawns.
BatchIndex == Len(batch.results)

\* Add(fn): index := len(b.results), then b.wg.Go: wg.Add(1), which panics
\* once Wait has set done, and the task's goroutine is spawned.  Tasks are
\* numbered in the order of the Add calls.
BatchAdd(i) ==
    /\ batchTask[i].pc = "unadded"
    /\ \A k \in BatchTasks : k < i => batchTask[k].pc # "unadded"
    /\ IF batch.done
       THEN /\ batchTask' = [batchTask EXCEPT ![i].pc = "addPanic"]
            /\ UNCHANGED batch
       ELSE /\ batchTask' = [batchTask EXCEPT ![i] = [pc |-> "running",
                                                      index |-> BatchIndex]]
            /\ batch' = [batch EXCEPT !.counter = @ + 1]
    /\ UNCHANGED batchWaiter
    /\ UNCHANGED otherThanBatch

\* The task's goroutine: fn() ends; when it returns, the BatchResult (and
\* the error, if any) is appended under b.mu; a panic skips the appends.  The
\* deferred wg.Done() runs in both cases and the executor recovers the panic.
BatchTaskEnd(i, outcome) ==
    /\ batchTask[i].pc = "running"
    /\ batchTask' = [batchTask EXCEPT ![i].pc = "done"]
    /\ batch' =
         IF outcome = "panic"
         THEN [batch EXCEPT !.counter = @ - 1]
         ELSE [batch EXCEPT
                 !.counter = @ - 1,
                 !.results = Append(@, [Index |-> batchTask[i].index, task |-> i,
                                        Error |-> outcome = "err"]),
                 !.errors = IF outcome = "err" THEN Append(@, i) ELSE @]
    /\ UNCHANGED batchWaiter
    /\ UNCHANGED otherThanBatch

\* Wait, first part: wg.done = true under wg.mu.
BatchWaitBegin ==
    /\ batchWaiter.pc = "idle"
    /\ batchWaiter' = [batchWaiter EXCEPT !.pc = "waiting"]
    /\ batch' = [batch EXCEPT !.done = TRUE]
    /\ UNCHANGED batchTask
    /\ UNCHANGED otherThanBatch

\* Wait, second part: wg.wg.Wait() returns at counter zero and
\* b.results, b.errors are returned.
BatchWaitReturn ==
    /\ batchWaiter.pc = "waiting"
    /\ batch.counter = 0
    /\ batchWaiter' = [pc |-> "returned", results |-> batch.results,
                       errors |-> batch.errors]
    /\ UNCHANGED <<batch, batchTask>>
    /\ UNCHANGED otherThanBatch

BatchNext ==
    \/ \E i \in BatchTasks : BatchAdd(i)
    \/ \E i \in BatchTasks, outcome \in FnOutcomes : BatchTaskEnd(i, outcome)
    \/ BatchWaitBegin
    \/ BatchWaitReturn

\* ===================================================================== Monitor

\* The values runtime reports for NumGoroutines, HeapAlloc and StackInuse
\* range over 0..MaxMetric; the three thresholds of the AlertConfig in use.
MaxMetric == 2
AlertThreshold == 1
\* Handlers registered by AddHandler, ticks of the monitor's ticker that are
\* followed, and the values given to SetCustomStat for one key.
MaxMonHandlers == 2
MaxMonitorTicks == 2
MaxCustomValue == 2

Metrics == 0..MaxMetric

\* The MonitorStats of NewMonitor: zero fields and a nil CustomStats map.
\* Of the map, whether it has been made, whether the executor_* keys are
\* present, and the value under one key of the application (0: absent).
NilCustomStats == [made |-> FALSE, executor |-> FALSE, user |-> 0]

NewMonitorStats ==
    [NumGoroutines |-> 0, HeapAlloc |-> 0, StackInuse |-> 0,
     CustomStats |-> NilCustomStats]

\* An AlertConfig; hasHandler: AlertHandler is not nil.
AlertConfigOf(hasHandler) ==
    [MaxGoroutines |-> AlertThreshold, MaxHeapAlloc |-> AlertThreshold,
     MaxStackInuse |-> AlertThreshold, AlertHandler |-> hasHandler]

\* A snapshot that has not been handed to anyone.
NotHanded == [given |-> FALSE, pointer |-> FALSE, value |-> NewMonitorStats]

\* NewMonitor: the default AlertConfig has no AlertHandler.
MonInitVars ==
    /\ monStats = NewMonitorStats
    /\ monConfig = AlertConfigOf(FALSE)
    /\ monHandlers = 0
    /\ monitor = [pc |-> "unstarted", tickPending |-> FALSE, stopped |-> FALSE]
    /\ monLog = [ticks |-> 0, fired |-> 0, collected |-> NewMonitorStats,
                 alerts |-> <<>>, notified |-> <<>>, stoppedStarted |-> FALSE]
    /\ monHanded = [byGetStats |-> NotHanded, byHandler |-> NotHanded]

\* SetAlertConfig(config).
MonitorSetAlertConfig(hasHandler) ==
    /\ monConfig # AlertConfigOf(hasHandler)
    /\ monConfig' = AlertConfigOf(hasHandler)
    /\ UNCHANGED <<monStats, monHandlers, monitor, monLog, monHanded>>
    /\ UNCHANGED otherThanMonitor

\* AddHandler(handler).
MonitorAddHandler ==
    /\ monHandlers < MaxMonHandlers
    /\ monHandlers' = monHandlers + 1
    /\ UNCHANGED <<monStats, monConfig, monitor, monLog, monHanded>>
    /\ UNCHANGED otherThanMonitor

\* Start: the monitoring goroutine is spawned and creates its ticker.
MonitorStart ==
    /\ monitor.pc = "unstarted"
    /\ monitor' = [monitor EXCEPT !.pc = "select"]
    /\ UNCHANGED <<monStats, monConfig, monHandlers, monLog, monHanded>>
    /\ UNCHANGED otherThanMonitor

\* Stop: close(m.stopChan).  The log notes whether Start had been called.
MonitorStop ==
    /\ ~monitor.stopped
    /\ monitor' = [monitor EXCEPT !.stopped = TRUE]
    /\ monLog' = [monLog EXCEPT !.stoppedStarted = (monitor.pc # "unstarted")]
    /\ UNCHANGED <<monStats, monConfig, monHandlers, monHanded>>
    /\ UNCHANGED otherThanMonitor

\* The ticker sends a tick on ticker.C unless one is waiting there.
MonitorTickFire ==
    /\ monitor.pc \notin {"unstarted", "exited", "panicked"}
    /\ ~monitor.tickPending
    /\ monLog.fired < MaxMonitorTicks
    /\ monitor' = [monitor EXCEPT !.tickPending = TRUE]
    /\ monLog' = [monLog EXCEPT !.fired = @ + 1]
    /\ UNCHANGED <<monStats, monConfig, monHandlers, monHanded>>
    /\ UNCHANGED otherThanMonitor

\* The CustomStats map after collectStats has written the executor_* keys.
WithExecutorStats(custom) == [custom EXCEPT !.made = TRUE, !.executor = TRUE]

\* The select takes case <-ticker.C, and collectStats: the fields of m.stats
\* are overwritten in place with what runtime reports (ng, ha, si).
MonitorCollect(ng, ha, si) ==
    /\ monitor.pc = "select"
    /\ monitor.tickPending
    /\ monitor' = [monitor EXCEPT !.pc = "collected", !.tickPending = FALSE]
    /\ monStats' = [NumGoroutines |-> ng, HeapAlloc |-> ha, StackInuse |-> si,
                    CustomStats |-> WithExecutorStats(monStats.CustomStats)]
    /\ monLog' = [monLog EXCEPT !.ticks = @ + 1, !.collected = monStats',
                                !.alerts = <<>>, !.notified = <<>>]
    /\ UNCHANGED <<monConfig, monHandlers, monHanded>>
    /\ UNCHANGED otherThanMonitor

\* The comparison of a value with its threshold in checkAlerts.
ExceedsOrEquals(value, threshold) == value >= threshold

Exceeds(value, threshold) == value > threshold

\* The Alert of one check of checkAlerts, as a sequence of zero or one alert.
AlertIf(type, severity, value, threshold) ==
    IF Exceeds(value, threshold)
    THEN <<[Type |-> type, Value |-> value, Threshold |-> threshold,
            Severity |-> severity]>>
    ELSE <<>>

\* The alerts checkAlerts passes to config.AlertHandler, in order.
CheckAlerts(config, st) ==
    IF ~config.AlertHandler
    THEN <<>>
    ELSE AlertIf("high_goroutines", "high", st.NumGoroutines, config.MaxGoroutines)
         \o AlertIf("high_heap_alloc", "high", st.HeapAlloc, config.MaxHeapAlloc)
         \o AlertIf("high_stack_inuse", "medium", st.StackInuse, config.MaxStackInuse)

\* checkAlerts; the alert handler is taken to return normally.
MonitorCheckAlerts ==
    /\ monitor.pc = "collected"
    /\ monitor' = [monitor EXCEPT !.pc = "checked"]
    /\ monLog' = [monLog EXCEPT !.alerts = CheckAlerts(monConfig, monStats)]
    /\ UNCHANGED <<monStats, monConfig, monHandlers, monHanded>>
    /\ UNCHANGED otherThanMonitor

\* notifyHandlers: m.handlers is copied and every handler of the copy is
\* called with the pointer m.stats; the handlers are taken to return normally.
MonitorNotify ==
    /\ monitor.pc = "checked"
    /\ monitor' = [monitor EXCEPT !.pc = "select"]
    /\ monLog' = [monLog EXCEPT !.notified = [h \in 1..monHandlers |-> h]]
    /\ monHanded' = IF monHandlers > 0
                    THEN [monHanded EXCEPT !.byHandler =
                            [given |-> TRUE, pointer |-> TRUE, value |-> monStats]]
                    ELSE monHanded
    /\ UNCHANGED <<monStats, monConfig, monHandlers>>
    /\ UNCHANGED otherThanMonitor

\* The select takes case <-m.stopChan: the goroutine returns.
MonitorExit ==
    /\ monitor.pc = "select"
    /\ monitor.stopped
    /\ monitor' = [monitor EXCEPT !.pc = "exited"]
    /\ UNCHANGED <<monStats, monConfig, monHandlers, monLog, monHanded>>
    /\ UNCHANGED otherThanMonitor

\* SetCustomStat(key, value): the map is made if it is nil and written in place.
MonitorSetCustomStat(v) ==
    /\ monStats.CustomStats.user # v
    /\ monStats' = [monStats EXCEPT !.CustomStats =
                      [@ EXCEPT !.made = TRUE, !.user = v]]
    /\ UNCHANGED <<monConfig, monHandlers, monitor, monLog, monHanded>>
    /\ UNCHANGED otherThanMonitor

\* Monitor.GetStats: "stats := *m.stats; return &stats" copies the fields;
\* the copy of the field CustomStats refers to the same map.
MonitorGetStats ==
    /\ monHanded' = [monHanded EXCEPT !.byGetStats =
                       [given |-> TRUE, pointer |-> FALSE, value |-> monStats]]
    /\ UNCHANGED <<monStats, monConfig, monHandlers, monitor, monLog>>
    /\ UNCHANGED otherThanMonitor

\* What the holder of a handed snapshot reads from it now: through a pointer
\* to m.stats the object itself; in a copy the copied fields and, if the map
\* existed, the map m.stats still refers to.
SnapshotView(h) ==
    IF h.pointer
    THEN monStats
    ELSE [h.value EXCEPT !.CustomStats =
            IF h.value.CustomStats.made THEN monStats.CustomStats ELSE @]

\* A monitor with its handlers and alert configuration, ticking.
MonitorNext ==
    \/ \E hasHandler \in BOOLEAN : MonitorSetAlertConfig(hasHandler)
    \/ MonitorAddHandler
    \/ MonitorStart
    \/ MonitorStop
    \/ MonitorTickFire
    \/ \E ng, ha, si \in Metrics : MonitorCollect(ng, ha, si)
    \/ MonitorCheckAlerts
    \/ MonitorNotify
    \/ MonitorExit

\* checkAlerts with an alert to report, and config.AlertHandler panics on the
\* first one: the panic unwinds checkAlerts and the loop of Start, the
\* deferred ticker.Stop() runs, and the deferred function of the executor's
\* goroutine recovers it, after which the monitoring goroutine has ended.
MonitorAlertHandlerPanics ==
    /\ monitor.pc = "collected"
    /\ CheckAlerts(monConfig, monStats) # <<>>
    /\ monitor' = [monitor EXCEPT !.pc = "panicked"]
    /\ monLog' = [monLog EXCEPT !.alerts = <<Head(CheckAlerts(monConfig, monStats))>>]
    /\ crashed' = (crashed \/ ~Recovers(TRUE))
    /\ UNCHANGED <<monStats, monConfig, monHandlers, monHanded>>
    /\ UNCHANGED <<stats, recoverHandler, task>>
    /\ UNCHANGED otherThanMonitorExec

\* notifyHandlers, and the h-th handler panics after the ones before it have
\* returned: the goroutine ends in the same way.
MonitorHandlerPanics(h) ==
    /\ monitor.pc = "checked"
    /\ h \in 1..monHandlers
    /\ monitor' = [monitor EXCEPT !.pc = "panicked"]
    /\ monLog' = [monLog EXCEPT !.notified = [i \in 1..h |-> i]]
    /\ monHanded' = [monHanded EXCEPT !.byHandler =
                       [given |-> TRUE, pointer |-> TRUE, value |-> monStats]]
    /\ crashed' = (crashed \/ ~Recovers(TRUE))
    /\ UNCHANGED <<monStats, monConfig, monHandlers>>
    /\ UNCHANGED <<stats, recoverHandler, task>>
    /\ UNCHANGED otherThanMonitorExec

\* A monitor whose handlers may panic.
MonitorPanicNext ==
    \/ MonitorNext
    \/ MonitorAlertHandlerPanics
    \/ \E h \in 1..MaxMonHandlers : MonitorHandlerPanics(h)

\* A monitor whose snapshots are read by the application.
MonitorSnapshotNext ==
    \/ MonitorAddHandler
    \/ MonitorStart
    \/ MonitorTickFire
    \/ \E ng \in Metrics : MonitorCollect(ng, 0, 0)
    \/ MonitorCheckAlerts
    \/ MonitorNotify
    \/ \E v \in 1..MaxCustomValue : MonitorSetCustomStat(v)
    \/ MonitorGetStats

\* ====================================================== Pool: AverageJobTime

\* Longest job duration (time.Since(startTime), in clock units) and the
\* number of jobs whose Execute returns.
MaxJobTime == 3
MaxFinishedJobs == 4

AvgInitVars ==
    avgJob = [AverageJobTime |-> 0, CompletedJobs |-> 0, FailedJobs |-> 0,
              finished |-> <<>>]

\* "if totalJobs > 0 { AverageJobTime = (AverageJobTime*totalJobs + jobTime)
\* / (totalJobs + 1) }"; the operands are non-negative, so Go's truncated
\* division is \div.
AverageJobTimeAfter(avg, totalJobs, jobTime) ==
    IF totalJobs > 0
    THEN (avg * totalJobs + jobTime) \div (totalJobs + 1)
    ELSE avg

\* The statistics block of the job's goroutine in executeJob, run under
\* p.stats.mu once job.Execute has returned err (failed) after jobTime:
\* one of the counters is incremented, then totalJobs is read from them.
ExecuteJobStats(jobTime, failed) ==
    /\ Len(avgJob.finished) < MaxFinishedJobs
    /\ LET completedJobs == avgJob.CompletedJobs + (IF failed THEN 0 ELSE 1)
           failedJobs == avgJob.FailedJobs + (IF failed THEN 1 ELSE 0)
           totalJobs == completedJobs + failedJobs
       IN avgJob' = [AverageJobTime |->
                        AverageJobTimeAfter(avgJob.AverageJobTime, totalJobs, jobTime),
                     CompletedJobs |-> completedJobs,
                     FailedJobs |-> failedJobs,
                     finished |-> Append(avgJob.finished, jobTime)]
    /\ UNCHANGED otherThanAvg

AvgNext ==
    \E jobTime \in 0..MaxJobTime, failed \in BOOLEAN : ExecuteJobStats(jobTime, failed)

\* ================================================================= CachedGroup

\* Goroutines calling Do with the same key.
NumDoCallers == 3

DoCallers == 1..NumDoCallers
\* No value: a cache miss, and the value returned along with an error.  The
\* n-th invocation of fn that succeeds returns the value n.
NoValue == 0

\* A caller of Do: where it is and the Result it holds.
NewDoCaller ==
    [pc |-> "idle", value |-> NoValue, err |-> FALSE, shared |-> FALSE,
     fromCache |-> FALSE]

\* NewCachedGroup: nothing cached, no call in flight; fn has not been invoked.
CGInitVars ==
    cgroup = [cache |-> NoValue, inFlight |-> FALSE, fnCalls |-> 0, fnErrs |-> 0,
              caller |-> [c \in DoCallers |-> NewDoCaller]]

\* Do, "if v, found := g.cache.Get(key); found { return ... FromCache: true }".
\* The ttl of the entries is longer than the run, so none expires.
DoCheckCache(c) ==
    /\ cgroup.caller[c].pc = "idle"
    /\ cgroup' = [cgroup EXCEPT !.caller[c] =
                     IF cgroup.cache # NoValue
                     THEN [@ EXCEPT !.pc = "returned", !.value = cgroup.cache,
                                    !.fromCache = TRUE]
                     ELSE [@ EXCEPT !.pc = "sfDo"]]
    /\ UNCHANGED otherThanCG

\* g.sf.Do(key, ...) is entered: with a call in flight for the key the caller
\* waits for it, otherwise it becomes the call in flight and runs the closure.
DoSfEnter(c) ==
    /\ cgroup.caller[c].pc = "sfDo"
    /\ cgroup' = IF cgroup.inFlight
                 THEN [cgroup EXCEPT !.caller[c].pc = "waiting"]
                 ELSE [cgroup EXCEPT !.inFlight = TRUE, !.caller[c].pc = "doubleCheck"]
    /\ UNCHANGED otherThanCG

\* The call in flight ends with (v, e): the caller that ran it and every
\* caller waiting for it are returned (v, e) by sf.Do, and the key leaves
\* the group.  shared: the result went to more than one caller.
FlightEnds(g, c, v, e) ==
    LET waiting == {d \in DoCallers : g.caller[d].pc = "waiting"}
    IN [g EXCEPT !.inFlight = FALSE,
                 !.caller = [d \in DoCallers |->
                               IF d = c \/ d \in waiting
                               THEN [g.caller[d] EXCEPT !.pc = "sfReturned",
                                                        !.value = v,
                                                        !.err = e,
                                                        !.shared = (waiting # {})]
                               ELSE g.caller[d]]]

\* The closure, "Double check cache": a value found ends the call in flight.
DoDoubleCheck(c) ==
    /\ cgroup.caller[c].pc = "doubleCheck"
    /\ cgroup' = IF cgroup.cache # NoValue
                 THEN FlightEnds(cgroup, c, cgroup.cache, FALSE)
                 ELSE [cgroup EXCEPT !.caller[c].pc = "fn"]
    /\ UNCHANGED otherThanCG

\* The closure, "return fn()": fn is invoked and returns a value or an error.
DoFnReturn(c, fails) ==
    /\ cgroup.caller[c].pc = "fn"
    /\ cgroup' = IF fails
                 THEN FlightEnds([cgroup EXCEPT !.fnCalls = @ + 1, !.fnErrs = @ + 1],
                                 c, NoValue, TRUE)
                 ELSE FlightEnds([cgroup EXCEPT !.fnCalls = @ + 1],
                                 c, cgroup.fnCalls + 1, FALSE)
    /\ UNCHANGED otherThanCG

\* Do after sf.Do: "if err == nil { g.cache.Set(key, v, ttl) }; return result".
DoCacheSet(c) ==
    /\ cgroup.caller[c].pc = "sfReturned"
    /\ cgroup' = [cgroup EXCEPT !.cache = IF cgroup.caller[c].err
                                          THEN @ ELSE cgroup.caller[c].value,
                                !.caller[c].pc = "returned"]
    /\ UNCHANGED otherThanCG

CGNext ==
    \/ \E c \in DoCallers : DoCheckCache(c)
    \/ \E c \in DoCallers : DoSfEnter(c)
    \/ \E c \in DoCallers : DoDoubleCheck(c)
    \/ \E c \in DoCallers, fails \in BOOLEAN : DoFnReturn(c, fails)
    \/ \E c \in DoCallers : DoCacheSet(c)

\* =================================================================== WaitGroup

\* NewWaitGroup: the counter of wg.wg is zero and wg.done is false.  adder:
\* the goroutine calling Go and GoWithContext; waiter: the one calling Wait.
WGInitVars ==
    waitGroup = [counter |-> 0, done |-> FALSE, adder |-> "idle", waiter |-> "idle"]

\* WaitGroup.GoWithContext(ctx, fn): Add(1), which panics in the caller once
\* Wait has been called, then se.GoWithContext up to its go statement.
\* WaitGroup.Go(fn) is the case of a context that is never cancelled.  The
\* tasks are those of the executor.
WGGoWithContext(t, cancelled) ==
    /\ ~crashed
    /\ waitGroup.adder = "idle"
    /\ task[t].pc = "unspawned"
    /\ \A i \in Tasks : i < t => task[i].pc # "unspawned"
    /\ IF waitGroup.done
       THEN /\ waitGroup' = [waitGroup EXCEPT !.adder = "panicked"]
            /\ UNCHANGED <<task, stats>>
       ELSE /\ waitGroup' = [waitGroup EXCEPT !.counter = @ + 1]
            /\ task' = [task EXCEPT ![t] = [@ EXCEPT !.pc = "spawned",
                                                     !.handler = recoverHandler,
                                                     !.ctxDone = cancelled,
                                                     !.origin = IF cancelled
                                                                THEN "cancelledCtx"
                                                                ELSE "ctx"]]
            /\ stats' = SpawnStats(stats)
    /\ UNCHANGED <<recoverHandler, crashed>>
    /\ UNCHANGED otherThanExecWG

\* The closure "defer wg.Done(); fn()" ends: fn returns or panics, and the
\* deferred wg.Done() runs either way before the executor's deferred function.
WGTaskFnEnd(t, panics) ==
    /\ ~crashed
    /\ task[t].pc = "running"
    /\ task' = [task EXCEPT ![t] = [@ EXCEPT !.pc = "exiting", !.panicked = panics]]
    /\ waitGroup' = [waitGroup EXCEPT !.counter = @ - 1]
    /\ UNCHANGED <<stats, recoverHandler, crashed>>
    /\ UNCHANGED otherThanExecWG

\* Wait, up to wg.wg.Wait(): wg.done = true.
WGWait ==
    /\ ~crashed
    /\ waitGroup.waiter = "idle"
    /\ waitGroup' = [waitGroup EXCEPT !.done = TRUE, !.waiter = "waiting"]
    /\ UNCHANGED execVars
    /\ UNCHANGED otherThanExecWG

\* wg.wg.Wait() returns: the counter is zero.
WGWaitReturn ==
    /\ ~crashed
    /\ waitGroup.waiter = "waiting"
    /\ waitGroup.counter = 0
    /\ waitGroup' = [waitGroup EXCEPT !.waiter = "returned"]
    /\ UNCHANGED execVars
    /\ UNCHANGED otherThanExecWG

WGNext ==
    \/ \E t \in Tasks, cancelled \in BOOLEAN : WGGoWithContext(t, cancelled)
    \/ \E t \in Tasks : CtxCancel(t)
    \/ \E t \in Tasks : TaskStart(t)
    \/ \E t \in Tasks, panics \in BOOLEAN : WGTaskFnEnd(t, panics)
    \/ \E t \in Tasks : TaskDeferActive(t)
    \/ \E t \in Tasks : TaskDeferSettle(t)
    \/ WGWait
    \/ WGWaitReturn

\* ============================================================== specifications

\* No call of Retry.Execute is under way.
RetryIdle ==
    /\ retry = RetryAtEntry(0, [i \in 1..MaxAttempts |-> "ok"])
    /\ async = AsyncIdle

\* No backoff strategy is in use.
BackoffIdle == backoff = NewExponentialBackoff(0, 0)

ExecInit ==
    /\ ExecInitVars /\ PoolInitVars /\ CBInitVars /\ RLInitVars
    /\ RetryIdle /\ BackoffIdle /\ BatchInitVars /\ MonInitVars /\ IntervalInitVars
    /\ AvgInitVars /\ CGInitVars /\ WGInitVars
ExecSpec == ExecInit /\ [][ExecNext]_vars

ExecResetInit == ExecInit
ExecResetSpec == ExecResetInit /\ [][ExecResetNext]_vars

ExecTimeoutInit == ExecInit
ExecTimeoutSpec == ExecTimeoutInit /\ [][ExecTimeoutNext]_vars

ExecIntervalInit == ExecInit
ExecIntervalSpec == ExecIntervalInit /\ [][ExecIntervalNext]_vars

PoolInit == ExecInit
PoolSpec == PoolInit /\ [][PoolNext]_vars

CBInit == ExecInit
CBSpec == CBInit /\ [][CBNext]_vars

RLInit == ExecInit
RLSpec == RLInit /\ [][RLNext]_vars

\* Execute(fn) on a Retry of any maxAttempts, for any behaviour of fn.
RetryInit ==
    /\ ExecInitVars /\ PoolInitVars /\ CBInitVars /\ RLInitVars
    /\ \E n \in 0..MaxAttempts, plan \in FnPlans : retry = RetryAtEntry(n, plan)
    /\ async = AsyncIdle
    /\ BackoffIdle /\ BatchInitVars /\ MonInitVars /\ IntervalInitVars
    /\ AvgInitVars /\ CGInitVars /\ WGInitVars
RetrySpec == RetryInit /\ [][RetryNext]_vars

\* ExecuteAsync(fn) on a Retry of any maxAttempts, for any behaviour of fn.
RetryAsyncInit == RetryInit
RetryAsyncSpec == RetryAsyncInit /\ [][RetryAsyncNext]_vars

\* GetDelay on an ExponentialBackoff of any non-negative BaseDelay and MaxDelay.
BackoffInit ==
    /\ ExecInitVars /\ PoolInitVars /\ CBInitVars /\ RLInitVars /\ RetryIdle
    /\ BatchInitVars /\ MonInitVars /\ IntervalInitVars
    /\ AvgInitVars /\ CGInitVars /\ WGInitVars
    /\ \E base \in Durations, maxDelay \in Durations :
          backoff = NewExponentialBackoff(base, maxDelay)
BackoffSpec == BackoffInit /\ [][BackoffNext]_vars

BatchInit == ExecInit
BatchSpec == BatchInit /\ [][BatchNext]_vars

MonitorInit == ExecInit
MonitorSpec == MonitorInit /\ [][MonitorNext]_vars

MonitorPanicInit == ExecInit
MonitorPanicSpec == MonitorPanicInit /\ [][MonitorPanicNext]_vars

MonitorSnapshotInit == ExecInit
MonitorSnapshotSpec == MonitorSnapshotInit /\ [][MonitorSnapshotNext]_vars

AvgInit == ExecInit
AvgSpec == AvgInit /\ [][AvgNext]_vars

CGInit == ExecInit
CGSpec == CGInit /\ [][CGNext]_vars

WGInit == ExecInit
WGSpec == WGInit /\ [][WGNext]_vars

\* ====================================================================== claims

SpawnedTasks == {t \in Tasks : task[t].pc # "unspawned"}

\* C1: once every task spawned through Go/GoWithContext has exited (and
\* ResetStats was not called), GetStats reports ActiveGoroutines = 0 and
\* CompletedCount + PanicCount = TotalGoroutines = the number of tasks
\* spawned; a task that panicked is counted in PanicCount only, a task that
\* returned or was skipped in CompletedCount only.
C1_ExitedTasksAreCountedOnce ==
    (\A t \in SpawnedTasks : task[t].pc = "done") =>
        /\ GetStats.ActiveGoroutines = 0
        /\ GetStats.TotalGoroutines = Cardinality(SpawnedTasks)
        /\ GetStats.CompletedCount + GetStats.PanicCount = GetStats.TotalGoroutines
        /\ GetStats.PanicCount = Cardinality({t \in SpawnedTasks : task[t].panicked})
        /\ GetStats.CompletedCount = Cardinality({t \in SpawnedTasks : ~task[t].panicked})

\* All tasks have exited, one of them by a panic and one of them skipped.
C1_Witness ==
    /\ \A t \in Tasks : task[t].pc = "done"
    /\ \E t \in Tasks : task[t].panicked
    /\ \E t \in Tasks : ~task[t].ranFn

\* C2: a panic of fn never leaves its goroutine (the process is not
\* crashed and the other tasks go on), the handler the task was given is
\* called exactly once for the panic (never when it is nil), and no handler
\* is called for a task that returned normally or was skipped.
C2_PanicContainedHandlerOnce ==
    /\ ~crashed
    /\ \A t \in Tasks :
        /\ task[t].handled <= 1
        /\ ~task[t].panicked => task[t].handled = 0
        /\ task[t].pc = "done" =>
              task[t].handled =
                  IF task[t].panicked /\ task[t].handler # NoHandler THEN 1 ELSE 0

\* A task has panicked and its handler has been called while another task
\* is still running its fn, and a task that returned normally has exited.
C2_Witness ==
    /\ ~crashed
    /\ \E t, u \in Tasks :
        /\ task[t].pc = "done" /\ task[t].panicked /\ task[t].handled = 1
        /\ task[u].pc = "running"

\* The pool has not been stopped.
PoolNotStopped == ~quit /\ ~jobQueueClosed

\* C3: while the pool has not been stopped, a job accepted by Submit is
\* eventually executed, also when more jobs were accepted than there are
\* workers.  Stated for jobs without a timeout, as what every finite run
\* must then allow: as long as an accepted job has not finished, some
\* goroutine of the pool can take a step.
C3_AcceptedJobCanProgress ==
    (/\ PoolNotStopped
     /\ \A j \in Jobs : ~job[j].timeout
     /\ \E j \in Jobs : job[j].pc \in {"accepted", "spawned", "running"})
        => ENABLED PoolInternalNext

\* C4: Submit never blocks: with fewer than QueueSize jobs in the queue it
\* enqueues the job and returns nil, with a full queue it returns
\* ErrPoolFull and leaves the queue as it is.
C4_SubmitEnqueuesOrRejects ==
    [][\A j \in Jobs :
        (job[j].pc = "new" /\ job'[j].pc # "new") =>
            IF Len(jobQueue) < QueueSize
            THEN job'[j].pc = "accepted" /\ jobQueue' = Append(jobQueue, j)
            ELSE job'[j].pc = "rejected" /\ jobQueue' = jobQueue]_vars

\* C5: at most MaxWorkers jobs are inside Execute at any time, and the
\* ActiveWorkers value of GetStats lies between 0 and MaxWorkers.
C5_RunningJobsBounded ==
    /\ Cardinality(RunningJobs) <= MaxWorkers
    /\ PoolGetStats.ActiveWorkers >= 0
    /\ PoolGetStats.ActiveWorkers <= MaxWorkers

\* MaxWorkers jobs are running at once while all workers are alive.
C5_Witness ==
    /\ Cardinality(RunningJobs) = MaxWorkers
    /\ PoolGetStats.ActiveWorkers = MaxWorkers

\* C6: from Closed the breaker opens exactly when maxFailures failing calls
\* have completed in a row; a success in between restarts the count.  Stated
\* for calls that never overlap.
C6_OpensOnConsecutiveFailures ==
    [][(~cbLog'.overlap /\ cb.state = "Closed" /\ cb'.state = "Open")
          => cbLog'.consec >= MaxFailures]_vars

\* C7: a call that read the state Open and finds the timeout not exceeded
\* returns the circuit-open error without invoking fn and leaves the state,
\* the counters and lastFailureTime as they are.
C7_OpenRejectsWithoutCalling ==
    [][\A c \in Callers :
        (/\ call[c].pc = "switch"
         /\ call'[c].pc # "switch"
         /\ call[c].state = "Open"
         /\ now - cb.lastFailureTime <= ResetTimeout)
            => /\ call'[c].pc = "idle"
               /\ call'[c].result = "open"
               /\ cb' = cb
               /\ cbLog'.fnCalls = cbLog.fnCalls]_vars

\* A call has been rejected by the open breaker, which only the failing
\* calls that opened it have entered.
C7_Witness ==
    /\ cb.state = "Open"
    /\ now - cb.lastFailureTime <= ResetTimeout
    /\ cbLog.fnCalls = MaxFailures
    /\ \E c \in Callers : call[c].pc = "idle" /\ call[c].result = "open"

\* C8: with only Execute calls interleaved, the state becomes HalfOpen only
\* from Open and only when more than resetTimeout has passed since the last
\* recorded failure.
C8_HalfOpenOnlyFromTimedOutOpen ==
    [][(~cbLog.reset /\ cb.state # "HalfOpen" /\ cb'.state = "HalfOpen")
          => (cb.state = "Open" /\ now - cb.lastFailureTime > ResetTimeout)]_vars

\* C9: with only Execute calls interleaved, a call that records its result
\* while the breaker is HalfOpen leaves it Closed with failureCount 0 after a
\* success, and Open with lastFailureTime set to the present after a failure.
C9_HalfOpenResultDecides ==
    [][\A c \in Callers :
        (/\ ~cbLog.reset
         /\ call[c].pc = "record"
         /\ call'[c].pc = "idle"
         /\ cb.state = "HalfOpen")
            => IF call[c].err
               THEN cb'.state = "Open" /\ cb'.lastFailureTime = now
               ELSE cb'.state = "Closed" /\ cb'.failureCount = 0]_vars

\* The smaller of two numbers.
Min(a, b) == IF a < b THEN a ELSE b

\* C10: on a fresh limiter, with no refill tick (and no Wait) so far, the
\* i-th Allow call returned true exactly for i <= limit, and the bucket holds
\* limit minus the number of granted calls.
C10_FirstLimitCallsAllowed ==
    (~allowLog.ticked /\ ~allowLog.waited) =>
        /\ \A i \in 1..Len(allowLog.results) : allowLog.results[i] = (i <= Limit)
        /\ GetAvailableTokens = Limit - Min(Len(allowLog.results), Limit)

\* limit + 2 calls were made with no tick: the last two were refused.
C10_Witness ==
    /\ ~allowLog.ticked
    /\ ~allowLog.waited
    /\ Len(allowLog.results) = Limit + 2
    /\ allowLog.results[Limit]
    /\ ~allowLog.results[Limit + 1]
    /\ ~allowLog.results[Limit + 2]
    /\ GetAvailableTokens = 0

\* Allow calls i..j that returned true.
GrantedBetween(i, j) == {k \in i..j : allowLog.results[k]}

\* C11: of the Allow calls made within a window shorter than one interval
\* (limit ticker periods), at most limit return true.  Calls i..j lie in
\* such a window when they span fewer than limit ticker periods, i.e. the
\* tick counts at i and at j differ by at most limit - 1.
C11_AtMostLimitPerInterval ==
    \A i, j \in 1..Len(allowLog.results) :
        (i <= j /\ allowLog.times[j] - allowLog.times[i] + 1 <= Limit)
            => Cardinality(GrantedBetween(i, j)) <= Limit

\* Invocations of fn, among the calls made so far, that returned an error.
RetryFailures == Cardinality({i \in 1..retry.calls : retry.plan[i] = "err"})

\* C12: with maxAttempts = N >= 1, fn is invoked at most N times; when
\* Execute returns nil, fn failed k < N times and was invoked k+1 times, its
\* last invocation being its first success; when Execute returns an error,
\* fn was invoked exactly N times, failed each time, and the error wraps the
\* error of the N-th invocation.
C12_RetryUntilSuccessOrExhausted ==
    retry.maxAttempts >= 1 =>
        /\ retry.calls <= retry.maxAttempts
        /\ (retry.pc = "returned" /\ retry.result = "nil") =>
              /\ RetryFailures < retry.maxAttempts
              /\ retry.calls = RetryFailures + 1
              /\ retry.plan[retry.calls] = "ok"
        /\ (retry.pc = "returned" /\ retry.result = "error") =>
              /\ retry.calls = retry.maxAttempts
              /\ RetryFailures = retry.maxAttempts
              /\ retry.wrapped = retry.maxAttempts

\* maxAttempts 3: one call returned nil after two failures.
C12_Witness ==
    /\ retry.maxAttempts = MaxAttempts
    /\ retry.pc = "returned"
    /\ retry.result = "nil"
    /\ retry.calls = MaxAttempts
    /\ RetryFailures = MaxAttempts - 1

\* C13: in any interleaving of Go/GoWithContext calls and task exits, with
\* ResetStats not called, every GetStats snapshot has ActiveGoroutines >= 0
\* and CompletedCount + PanicCount <= TotalGoroutines.
C13_SnapshotCountersConsistent ==
    /\ GetStats.ActiveGoroutines >= 0
    /\ GetStats.CompletedCount + GetStats.PanicCount <= GetStats.TotalGoroutines

\* One task has completed, one has panicked, and every counter has moved.
C13_Witness ==
    /\ GetStats.CompletedCount >= 1
    /\ GetStats.PanicCount >= 1
    /\ GetStats.CompletedCount + GetStats.PanicCount = GetStats.TotalGoroutines
    /\ GetStats.ActiveGoroutines = 0

\* C14: GoWithContext honours the context only at the start boundary: a task
\* whose ctx was already cancelled at the call never invokes fn; a running fn
\* is not ended by the cancellation of ctx, it leaves only by its own end,
\* and when it returns normally it is counted in CompletedCount.
C14_ContextOnlyAtStart ==
    [][\A t \in Tasks :
         /\ task'[t].origin = "cancelledCtx" => ~task'[t].ranFn
         /\ (task[t].pc = "running" /\ task'[t].ctxDone # task[t].ctxDone)
               => task'[t].pc = "running"
         /\ (task[t].pc = "running" /\ task'[t].pc # "running")
               => task'[t].pc = "exiting"
         /\ (task[t].ranFn /\ ~task[t].panicked
               /\ task[t].pc = "recovering" /\ task'[t].pc = "done")
               => stats'.CompletedCount = stats.CompletedCount + 1]_vars

\* One task was skipped for its cancelled ctx; another was cancelled while fn
\* ran, returned normally and has been counted.
C14_Witness ==
    \E t, u \in Tasks :
        /\ task[t].origin = "cancelledCtx" /\ task[t].pc = "done" /\ ~task[t].ranFn
        /\ task[u].origin = "ctx" /\ task[u].ctxDone /\ task[u].ranFn
        /\ task[u].pc = "done" /\ ~task[u].panicked
        /\ stats.CompletedCount = 2

\* C15: a task spawned by GoWithTimeout(fn, d) that reaches its start check
\* before d has elapsed executes fn.
C15_TimeoutTaskStartsBeforeExpiry ==
    \A t \in Tasks :
        (/\ task[t].origin \in {"timeout", "timeoutReturned"}
         /\ task[t].pc \notin {"unspawned", "spawned"}
         /\ ~task[t].expired)
            => task[t].ranFn

\* C16: a job whose Execute returns an error or panics ends no worker: the
\* workers and ActiveWorkers are as they were, the panic goes no further than
\* the job's goroutine, and the pool's recover handler is invoked once for a
\* panic (and not for an error).
C16_JobFailureSparesWorkers ==
    [][\A j \in Jobs :
         (/\ job[j].pc = "running"
          /\ job'[j].pc = "done"
          /\ poolStats'.CompletedJobs = poolStats.CompletedJobs)
            => /\ worker' = worker
               /\ poolStats'.workerCount = poolStats.workerCount
               /\ ~crashed'
               /\ job'[j].handled =
                     IF poolStats'.FailedJobs = poolStats.FailedJobs THEN 1 ELSE 0]_vars

\* One job has panicked and its panic was handled, another has returned an
\* error, and every worker is alive.
C16_Witness ==
    /\ \E j \in Jobs : job[j].pc = "done" /\ job[j].handled = 1
    /\ PoolGetStats.FailedJobs = 1
    /\ PoolGetStats.ActiveWorkers = MaxWorkers
    /\ \A w \in Workers : worker[w].pc \in {"idle", "executing"}

\* C17: a job with a timeout that was handed to a worker is always started;
\* the timeout never causes it to be skipped.
C17_TimeoutJobNeverSkipped ==
    \A j \in Jobs : job[j].timeout => job[j].pc # "skipped"

\* C18: after Stop the dispatcher and every worker eventually exit.  Stated
\* as what every finite run must then allow: once Stop has been called and no
\* goroutine of the pool can take a step, the dispatcher and the workers
\* have ended and ActiveWorkers is 0.
C18_StopEndsPoolTasks ==
    (/\ quit
     /\ ~jobQueueClosed
     /\ stopper.pc = "idle"
     /\ ~ENABLED PoolInternalNext)
        => /\ dispatcher.pc \in {"exited", "panicked"}
           /\ \A w \in Workers : worker[w].pc = "exited"
           /\ PoolGetStats.ActiveWorkers = 0

\* C19: Stop twice, StopGracefully twice, or both in either order complete
\* without a failure.
C19_RepeatedStopDoesNotFail ==
    stopper.pc # "panicked"

\* C20: after StopGracefully has been called, a Submit returns a rejection,
\* enqueues nothing and does not panic.
C20_SubmitAfterGracefulStopRejected ==
    [][jobQueueClosed =>
         \A j \in Jobs :
            (job[j].pc = "new" /\ job'[j].pc # "new")
                => job'[j].pc = "rejected" /\ jobQueue' = jobQueue]_vars

\* C21: after Stop has returned no token is added to the bucket again, so
\* Allow and Wait only drain the tokens that were there.
C21_NoRefillAfterStop ==
    [][refiller.stopped => tokens' <= tokens]_vars

\* C22: the channel of ExecuteAsync eventually delivers exactly one value,
\* the one Execute returns, whatever fn does; its receiver never blocks for
\* ever.  Stated as what every finite run must allow: once ExecuteAsync has
\* been called and nothing more can happen, the receiver has got that value.
C22_AsyncDeliversOneResult ==
    /\ Len(async.chan) + Len(async.received) <= 1
    /\ (async.pc # "idle" /\ ~ENABLED RetryAsyncNext)
          => async.received = <<ExecuteResult>>

\* The smaller of two durations.
MinDuration(a, b) == IF a < b THEN a ELSE b

\* C23: GetDelay(attempt) = min(BaseDelay * 2^attempt, MaxDelay) for every
\* attempt >= 0 and every BaseDelay and MaxDelay; the delay never exceeds
\* MaxDelay.
C23_ExponentialDelayCapped ==
    backoff.called =>
        /\ backoff.delay = MinDuration(backoff.BaseDelay * 2^backoff.attempt,
                                       backoff.MaxDelay)
        /\ backoff.delay <= backoff.MaxDelay

\* The tasks given to Add before Wait; each has been spawned.
AddedBatchTasks == {i \in BatchTasks : batchTask[i].pc \in {"running", "done"}}

\* C24: Wait returns only after all N added tasks have finished, with
\* exactly one BatchResult per added task and exactly the errors the tasks
\* returned.
C24_WaitReturnsAllResults ==
    batchWaiter.pc = "returned" =>
        /\ \A i \in AddedBatchTasks : batchTask[i].pc = "done"
        /\ Len(batchWaiter.results) = Cardinality(AddedBatchTasks)
        /\ \A i \in AddedBatchTasks :
              Cardinality({k \in 1..Len(batchWaiter.results) :
                              batchWaiter.results[k].task = i}) = 1
        /\ Len(batchWaiter.errors) =
              Cardinality({k \in 1..Len(batchWaiter.results) :
                              batchWaiter.results[k].Error})

\* C25: the Index of each BatchResult is the 0-based position at which its
\* task was added, so the results of Wait carry the distinct indices 0..N-1.
C25_IndexIsAddPosition ==
    batchWaiter.pc = "returned" =>
        /\ \A k \in 1..Len(batchWaiter.results) :
              batchWaiter.results[k].Index = batchWaiter.results[k].task - 1
        /\ {batchWaiter.results[k].Index : k \in 1..Len(batchWaiter.results)}
              = 0..(Len(batchWaiter.results) - 1)

\* The alerts of the tick with a given type.
AlertsOfType(alerts, type) == {k \in 1..Len(alerts) : alerts[k].Type = type}

\* What the claim requires of the alerts of one threshold: none if the
\* handler is nil or the value does not exceed the threshold, else exactly
\* one, carrying the value, the threshold and the severity.
AlertAsClaimed(alerts, hasHandler, type, severity, value, threshold) ==
    IF hasHandler /\ value > threshold
    THEN /\ Cardinality(AlertsOfType(alerts, type)) = 1
         /\ \A k \in AlertsOfType(alerts, type) :
               /\ alerts[k].Value = value
               /\ alerts[k].Threshold = threshold
               /\ alerts[k].Severity = severity
    ELSE AlertsOfType(alerts, type) = {}

\* C26: on each tick, for each of the three thresholds, the alert handler is
\* invoked exactly once iff the snapshot value is strictly greater than the
\* threshold, with the value and the threshold (severity high, high,
\* medium), and never when nothing is exceeded or AlertHandler is nil.
C26_AlertIffThresholdExceeded ==
    [][(monitor.pc = "collected" /\ monitor'.pc = "checked") =>
         /\ AlertAsClaimed(monLog'.alerts, monConfig.AlertHandler, "high_goroutines",
                           "high", monStats.NumGoroutines, monConfig.MaxGoroutines)
         /\ AlertAsClaimed(monLog'.alerts, monConfig.AlertHandler, "high_heap_alloc",
                           "high", monStats.HeapAlloc, monConfig.MaxHeapAlloc)
         /\ AlertAsClaimed(monLog'.alerts, monConfig.AlertHandler, "high_stack_inuse",
                           "medium", monStats.StackInuse, monConfig.MaxStackInuse)
         /\ Len(monLog'.alerts) =
               Cardinality(AlertsOfType(monLog'.alerts, "high_goroutines"))
               + Cardinality(AlertsOfType(monLog'.alerts, "high_heap_alloc"))
               + Cardinality(AlertsOfType(monLog'.alerts, "high_stack_inuse"))]_vars

\* A tick whose goroutine count and stack exceed their thresholds while the
\* heap equals its threshold: two alerts were raised.
C26_Witness ==
    /\ monitor.pc = "checked"
    /\ monConfig.AlertHandler
    /\ monStats.NumGoroutines > monConfig.MaxGoroutines
    /\ monStats.HeapAlloc = monConfig.MaxHeapAlloc
    /\ monStats.StackInuse > monConfig.MaxStackInuse
    /\ Len(monLog.alerts) = 2

\* C27: on every tick the steps run in the order collect, check alerts,
\* notify; every handler registered at the moment of the notification is
\* invoked once, in registration order, with the snapshot collected on that
\* tick; after Stop no further tick is processed.
C27_TickOrderAndStop ==
    [][/\ (monitor.pc = "collected" /\ monitor'.pc # "collected")
            => monitor'.pc = "checked"
       /\ (monitor.pc = "checked" /\ monitor'.pc # "checked")
            => /\ monitor'.pc = "select"
               /\ monLog'.notified = [h \in 1..monHandlers |-> h]
               /\ monHandlers > 0 => monHanded'.byHandler.value = monLog.collected
       /\ (monLog.stoppedStarted /\ monitor.pc = "select")
            => monitor'.pc # "collected"]_vars

\* C28: a snapshot handed to a caller of GetStats or to a handler never
\* changes afterwards: what its holder reads from it is what it held when
\* it was handed over.
C28_HandedSnapshotImmutable ==
    /\ monHanded.byGetStats.given
          => SnapshotView(monHanded.byGetStats) = monHanded.byGetStats.value
    /\ monHanded.byHandler.given
          => SnapshotView(monHanded.byHandler) = monHanded.byHandler.value

\* C29: once SetRecoverHandler(h) has returned, every panic the executor
\* catches invokes h, whenever the panicking task was spawned: the handler
\* used for a caught panic is the one installed at that time.
C29_CaughtPanicUsesInstalledHandler ==
    [][\A t \in Tasks :
         (task[t].pc = "recovering" /\ task'[t].pc = "done" /\ task[t].panicked)
            => task[t].handler = recoverHandler]_vars

\* C30: GoWithInterval spawns an independently protected instance of fn on
\* every tick until the stop channel is closed: the end of an instance, by a
\* panic or not, leaves the supervising goroutine and the process as they
\* are, and once the stop channel is closed no further instance is spawned.
C30_IntervalStopsSpawning ==
    [][/\ \A t \in Tasks :
            (task[t].pc = "recovering" /\ task'[t].pc = "done")
               => interval' = interval /\ ~crashed'
       /\ interval.stopClosed =>
            \A t \in Tasks : task[t].pc = "unspawned" => task'[t].pc = "unspawned"]_vars

\* Jobs the dispatcher has handed to a worker.
HandedJobs == {j \in Jobs : job[j].pc \in {"spawned", "running", "skipped", "done"}}

\* Jobs whose Submit returned nil.
AcceptedJobs == {j \in Jobs : job[j].pc = "accepted"} \cup HandedJobs

\* C31: jobs are handed to workers in the order in which Submit accepted
\* them: of two accepted jobs, the one submitted later is not with a
\* worker while the earlier one still waits.
C31_DispatchInSubmitOrder ==
    \A a \in AcceptedJobs, b \in HandedJobs : a < b => a \in HandedJobs

\* Two jobs accepted one after the other have both been handed over while a
\* third one waits in the queue.
C31_Witness ==
    /\ {1, 2} \subseteq HandedJobs
    /\ jobQueue = <<3>>

\* C32: AverageJobTime is the running average of the finished jobs' durations:
\* when a job of duration t finishes after n earlier ones, the new value is
\* (avg*n + t) \div (n+1), so after jobs of one and the same duration d the
\* value is d.
C32_AverageIsRunningAverage ==
    [][avgJob' # avgJob =>
         LET n == Len(avgJob.finished)
             t == avgJob'.finished[n + 1]
         IN /\ avgJob'.AverageJobTime = (avgJob.AverageJobTime * n + t) \div (n + 1)
            /\ (\A i \in 1..(n + 1) : avgJob'.finished[i] = t)
                  => avgJob'.AverageJobTime = t]_vars

\* C33: for one caller whose Execute calls follow one another, and no Reset:
\* the call completing maxFailures failures in a row leaves the breaker
\* Open; a call made while it is Open and less than resetTimeout has passed
\* since the last failure is rejected without invoking fn; a call made once
\* more than resetTimeout has passed goes on to invoke fn, and its success
\* leaves the breaker Closed with failureCount 0.
C33_SequentialOpenRejectProbeClose ==
    [][(~cbLog'.overlap /\ ~cbLog'.reset) =>
         \A c \in Callers :
            /\ (call[c].pc = "record" /\ call'[c].pc = "idle" /\ call[c].err
                   /\ cbLog'.consec >= MaxFailures)
                  => cb'.state = "Open"
            /\ (call[c].pc = "switch" /\ call'[c].pc # "switch" /\ cb.state = "Open")
                  => /\ now - cb.lastFailureTime < ResetTimeout
                          => /\ call'[c].pc = "idle"
                             /\ call'[c].result = "open"
                             /\ cbLog'.fnCalls = cbLog.fnCalls
                     /\ now - cb.lastFailureTime > ResetTimeout
                          => call'[c].pc = "toHalfOpen"
            /\ (call[c].pc = "toHalfOpen" /\ call'[c].pc # "toHalfOpen")
                  => call'[c].pc = "fn"
            /\ (call[c].pc = "fn" /\ call'[c].pc # "fn")
                  => cbLog'.fnCalls = cbLog.fnCalls + 1
            /\ (call[c].pc = "record" /\ call'[c].pc = "idle" /\ ~call[c].err
                   /\ call[c].state = "Open")
                  => cb'.state = "Closed" /\ cb'.failureCount = 0]_vars

\* One caller has made maxFailures failing calls, one rejected call and,
\* after the timeout, one successful call: fn ran maxFailures + 1 times and
\* the breaker is Closed again.
C33_Witness ==
    /\ ~cbLog.overlap
    /\ ~cbLog.reset
    /\ \A c \in Callers : call[c].pc = "idle"
    /\ cbLog.started = MaxFailures + 2
    /\ cbLog.fnCalls = MaxFailures + 1
    /\ cb.state = "Closed"
    /\ cb.failureCount = 0
    /\ cb.successCount = 1

\* Callers of Do to which Do has returned.
ReturnedDoCallers == {c \in DoCallers : cgroup.caller[c].pc = "returned"}

\* C34: when several goroutines call Do concurrently with one key that has
\* no cached value, and fn does not fail, fn is invoked once in all and
\* every caller is returned the result of that invocation without error.
C34_FnInvokedOnce ==
    cgroup.fnErrs = 0 =>
        /\ cgroup.fnCalls <= 1
        /\ \A c \in ReturnedDoCallers :
              /\ cgroup.fnCalls = 1
              /\ cgroup.caller[c].value = 1
              /\ ~cgroup.caller[c].err

\* C35: the number of available tokens is always between 0 and limit; the
\* refill goroutine's handling of a tick adds nothing to a full bucket; and
\* the grants made by Allow and Wait never outnumber limit plus the ticks
\* that added a token.
C35_TokensBoundedAndConserved ==
    [][/\ GetAvailableTokens \in 0..Limit
       /\ GetAvailableTokens' \in 0..Limit
       /\ (refiller.pc = "ticked" /\ refiller'.pc = "waiting" /\ tokens = Limit)
             => tokens' = Limit /\ allowLog'.refilled = allowLog.refilled
       /\ allowLog'.grants <= Limit + allowLog'.refilled]_vars

\* A tick found the bucket full and was dropped, a later one added a token,
\* and every token that ever existed has been granted.
C35_Witness ==
    /\ refiller.pc = "waiting"
    /\ allowLog.ticks > allowLog.refilled
    /\ allowLog.refilled >= 1
    /\ allowLog.grants = Limit + allowLog.refilled
    /\ tokens = 0

\* The invariant of the executor's counters on a snapshot s.
StatsConsistent(s) ==
    /\ s.ActiveGoroutines >= 0
    /\ s.CompletedCount + s.PanicCount <= s.TotalGoroutines

\* C36: ResetStats preserves the invariant of the counters, also when it is
\* called while tasks spawned earlier are still running: no step of the
\* executor, of a task or of ResetStats leads from a consistent GetStats
\* snapshot to an inconsistent one.
C36_ResetPreservesStatsInvariant ==
    [][StatsConsistent(GetStats) => StatsConsistent(GetStats')]_vars

\* C37: in every state of a pool, also during and after Stop and
\* StopGracefully, CompletedJobs + FailedJobs <= TotalJobs <= the number of
\* Submit calls that returned nil.
C37_CountersWithinSubmitted ==
    /\ PoolGetStats.CompletedJobs + PoolGetStats.FailedJobs <= PoolGetStats.TotalJobs
    /\ PoolGetStats.TotalJobs <= Cardinality(AcceptedJobs)

\* C38: Wait eventually returns once every task started through
\* WaitGroup.Go or WaitGroup.GoWithContext has ended, by returning, by a
\* panic, or skipped for a context cancelled before its start.  Stated as
\* what every finite run must then allow: while Wait is blocked and every
\* task started has ended, Wait can return.
C38_WaitReturnsOnceTasksEnded ==
    (/\ waitGroup.waiter = "waiting"
     /\ \A t \in SpawnedTasks : task[t].pc = "done")
        => ENABLED WGWaitReturn

\* C39: in every state of a breaker with maxFailures >= 1, under any
\* interleaving of Execute and Reset calls, state Open implies
\* failureCount >= maxFailures and state Closed implies
\* failureCount < maxFailures.
C39_StateMatchesFailureCount ==
    /\ CBGetState = "Open" => cb.failureCount >= MaxFailures
    /\ CBGetState = "Closed" => cb.failureCount < MaxFailures

\* Overlapping calls and a Reset have happened, and the breaker is Open with
\* more failures counted than maxFailures.
C39_Witness ==
    /\ cbLog.reset
    /\ cbLog.overlap
    /\ CBGetState = "Open"
    /\ cb.failureCount > MaxFailures

\* C40: a started monitor keeps processing ticks until Stop is called, also
\* when a monitor handler or the alert handler panics during a tick: as long
\* as Stop has not been called the monitoring goroutine is in its loop, at
\* the select or inside the processing of a tick.
C40_MonitorSurvivesHandlerPanic ==
    (monitor.pc # "unstarted" /\ ~monitor.stopped)
        => monitor.pc \in {"select", "collected", "checked"}

====
